---------------------------- MODULE Spec2Model ----------------------------
(***************************************************************************)
(* Cache-miss classification and streaming aggregation of the cache        *)
(* report tool: the check_* predicates of classifier.py, the cascade of    *)
(* command_stats/analyzer.py, classify_step, and the two key-spaces of     *)
(* BulkCommandAggregator fed by run_bulk_analysis.                         *)
(*                                                                         *)
(* A DynamoDB item is a record of attributes.  An attribute is a record    *)
(* [t, v]: t is the DynamoDB type tag ("S", "N", "BOOL", "NULL") or        *)
(* "ABSENT" when the item has no such key, v the value under that tag.     *)
(* Similarity scores are counted in hundredths (0.75 is 75).               *)
(* A string that is searched for a substring (llm_output) is a sequence of *)
(* word tokens; the empty string is the empty sequence.                    *)
(* The text of cache_query_results is a record [text, json]: text says     *)
(* what the string is ("empty", "NA", "garbage" for text json.loads        *)
(* rejects, "json" for well-formed JSON) and json is the value it encodes. *)
(***************************************************************************)
EXTENDS Integers, Sequences, FiniteSets, TLC

VARIABLES
    step,                   \* the DynamoDB item under classification / just pulled
    checks,                 \* outcome of every check_* function on step
    miss_reason,            \* result of analyze_cache_miss_reason(step)
    categories,             \* result of classify_step(step)
    command_stats,          \* BulkCommandAggregator.command_stats
    command_package_stats,  \* BulkCommandAggregator.command_package_stats
    total_steps_processed,  \* BulkCommandAggregator.total_steps_processed
    pc,                     \* position of run_bulk_analysis
    run_args,               \* the arguments of run_bulk_analysis
    reports,                \* the report files and the summary written by the run
    scan                    \* one call of scan_command_steps_with_pagination

vars == <<step, checks, miss_reason, categories, command_stats,
          command_package_stats, total_steps_processed, pc, run_args,
          reports, scan>>

(***************************************************************************)
(* Bounds of the model.                                                    *)
(***************************************************************************)
MaxCands == 2

MaxRecords == 3

\* The largest count of a bucket handed to the report generators directly.
MaxCount == 8

(***************************************************************************)
(* Program constants.                                                      *)
(***************************************************************************)
SIMILARITY_THRESHOLD == 75

\* Python values a check function can hand back, and an escaping exception.
PyTrue == "True"

PyFalse == "False"

PyNone == "None"

Raise == "RAISE"

NotRun == "<not run>"

Truthy(v) == v = PyTrue

Absent == [t |-> "ABSENT", v |-> ""]

AttrS(s) == [t |-> "S", v |-> s]

AttrN(n) == [t |-> "N", v |-> n]

\* An L attribute holding the one string s.
AttrL(s) == [t |-> "L", v |-> s]

\* A BOOL attribute keeps its value as PyTrue or PyFalse.
AttrBool(b) == [t |-> "BOOL", v |-> IF b THEN PyTrue ELSE PyFalse]

\* A missing created_at (a pair <<calendar date, rest>> when present).
AbsentStamp == [t |-> "ABSENT", v |-> <<"", "">>]

\* A missing llm_output (a token sequence when present).
AbsentText == [t |-> "ABSENT", v |-> <<>>]

(***************************************************************************)
(* models.py: the values of CacheFailureCategory.                          *)
(***************************************************************************)
UNDOABLE == "undoable"

UNBLOCKER_CALL == "unblocker_call"

OCR_STEPS == "ocr_steps"

DYNAMIC_STEP == "dynamic_step"

NULL_LLM_OUTPUT == "null_llm_output"

FAILED_STEP == "failed_step"

CACHE_READ_STATUS_NONE == "cache_read_status_none"

NO_CACHE_DOCUMENTS_FOUND == "no_cache_documents_found"

LESS_SIMILARITY_THRESHOLD == "less_similarity_threshold"

FAILED_AT_MUST_MATCH_FILTER == "failed_at_cand_nos_after_must_match_filter"

FAILED_AFTER_SIMILAR_DOC == "failed_after_similar_document_found_with_threshold_after_must_match_filter"

UNCLASSIFIED == "unclassified"

\* The twelve names in the order of _init_breakdown_stats.
CategoryNames ==
    <<UNDOABLE, UNBLOCKER_CALL, OCR_STEPS, DYNAMIC_STEP, NULL_LLM_OUTPUT,
      FAILED_STEP, CACHE_READ_STATUS_NONE, NO_CACHE_DOCUMENTS_FOUND,
      LESS_SIMILARITY_THRESHOLD, FAILED_AT_MUST_MATCH_FILTER,
      FAILED_AFTER_SIMILAR_DOC, UNCLASSIFIED>>

Categories == {CategoryNames[i] : i \in 1..Len(CategoryNames)}

(***************************************************************************)
(* utils.py                                                                *)
(***************************************************************************)
\* get_nested_value(step, attr, tag): the value under the tag, or the
\* default when the key or the tag is missing.
get_nested_value(item, attr, tag, default) ==
    IF item[attr].t = tag THEN item[attr].v ELSE default

HasKey(item, attr) == item[attr].t # "ABSENT"

\* JSON values: [j |-> "null" | "num" | "obj" | "list", items |-> docs].
JNull == [j |-> "null", items |-> <<>>]

JObj == [j |-> "obj", items |-> <<>>]

JList(docs) == [j |-> "list", items |-> docs]

\* Python truthiness of a parsed JSON value.
JTruthy(val) ==
    CASE val.j = "null" -> FALSE
      [] val.j = "list" -> Len(val.items) > 0
      [] OTHER -> TRUE

\* parse_json_string: None for a falsy string, for "NA" and for text that
\* json.loads rejects; the decoded value otherwise.
parse_json_string(json_str) ==
    IF json_str.text = "None" \/ json_str.text = "empty" \/ json_str.text = "NA"
    THEN JNull
    ELSE IF json_str.text = "garbage" THEN JNull
    ELSE json_str.json

\* `not cache_results_str` on the value get_nested_value returned.
StrFalsy(s) == s.text = "None" \/ s.text = "empty"

(***************************************************************************)
(* Candidate documents of cache_query_results.  A list element is          *)
(* [obj, score, is_used, report]: obj is FALSE for an element that is not  *)
(* a JSON object; score and report.cand are [k, n] with k "absent" (no     *)
(* such key), "null" or "num"; is_used is "absent", "true" or "false";     *)
(* report.k is "absent", "str" (a value that is not an object) or "obj".   *)
(***************************************************************************)
NoVal == [k |-> "absent", n |-> 0]

NullVal == [k |-> "null", n |-> 0]

Num(n) == [k |-> "num", n |-> n]

NoReport == [k |-> "absent", cand |-> NoVal]

Report(cand) == [k |-> "obj", cand |-> cand]

Doc(score, used, report) ==
    [obj |-> TRUE, score |-> score, is_used |-> used, report |-> report]

NotADoc == [obj |-> FALSE, score |-> NoVal, is_used |-> "absent", report |-> NoReport]

\* doc.get('similarity_score', 0): the default only replaces a missing key.
GetScore(doc) == IF doc.score.k = "absent" THEN Num(0) ELSE doc.score

\* `not doc.get('is_used', False)`
NotUsed(doc) == doc.is_used # "true"

\* `report and isinstance(report, dict)`
ReportIsDict(doc) == doc.report.k = "obj"

\* report.get('cand_nos_after_must_match_filter'): None for a missing key.
CandNos(doc) ==
    IF doc.report.cand.k = "absent" THEN NullVal ELSE doc.report.cand

(***************************************************************************)
(* classifier.py: the category check functions.  Each yields PyTrue,       *)
(* PyFalse, PyNone (the function ran off its end) or Raise (an exception   *)
(* left the function).                                                     *)
(***************************************************************************)
NoneStr == [text |-> "None", json |-> JNull]

\* A missing cache_query_results.
AbsentResults == [t |-> "ABSENT", v |-> NoneStr]

check_ocr_category(item) ==
    LET ocr_output == get_nested_value(item, "ocr_output", "S", "NA")
    IN  IF ocr_output # "" /\ ocr_output # "NA" THEN PyTrue ELSE PyFalse

check_unblocker_category_BoolOnly(item) ==
    IF get_nested_value(item, "is_blocker", "BOOL", PyNone) = PyTrue
    THEN PyTrue ELSE PyFalse

check_unblocker_category(item) ==
    LET is_blocker_bool == get_nested_value(item, "is_blocker", "BOOL", PyNone)
        is_blocker_str == get_nested_value(item, "is_blocker", "S", PyNone)
    IN  IF is_blocker_bool = PyTrue
           \/ is_blocker_str = "TRUE"
           \/ is_blocker_str = "true"
        THEN PyTrue ELSE PyFalse

check_failed_step_category(item) ==
    LET test_step_status == get_nested_value(item, "test_step_status", "S", PyNone)
    IN  IF test_step_status = "FAILED" THEN PyTrue ELSE PyFalse

check_dynamic_components_category(item) ==
    IF ~HasKey(item, "cache_read_status") THEN PyTrue ELSE PyFalse

\* The body after the early return is commented out in the source: with
\* cache_read_status '-1' the function runs off its end and returns None.
check_no_documents_found_category(item) ==
    LET cache_read_status == get_nested_value(item, "cache_read_status", "N", PyNone)
    IN  IF cache_read_status # "-1" THEN PyFalse ELSE PyNone

BelowThreshold_AtMost(n) == n <= SIMILARITY_THRESHOLD

\* `doc.get('similarity_score', 0) < SIMILARITY_THRESHOLD` for one candidate.
BelowThreshold(n) == n < SIMILARITY_THRESHOLD

\* all(doc.get('similarity_score', 0) < SIMILARITY_THRESHOLD for doc in ...):
\* stops at the first element that is not below; an element without .get
\* or a null score raises.
RECURSIVE AllBelowThreshold(_, _)
AllBelowThreshold(docs, i) ==
    IF i > Len(docs) THEN PyTrue
    ELSE IF ~docs[i].obj THEN Raise
    ELSE IF GetScore(docs[i]).k # "num" THEN Raise
    ELSE IF BelowThreshold(GetScore(docs[i]).n)
         THEN AllBelowThreshold(docs, i + 1)
         ELSE PyFalse

check_less_similarity_category(item) ==
    LET cache_results_str == get_nested_value(item, "cache_query_results", "S", NoneStr)
        cache_results == parse_json_string(cache_results_str)
    IN  IF StrFalsy(cache_results_str) THEN PyFalse
        ELSE IF ~JTruthy(cache_results) \/ cache_results.j # "list"
                \/ Len(cache_results.items) = 0
             THEN PyFalse
        ELSE AllBelowThreshold(cache_results.items, 1)

SimilarEnough_Strict(n) == n > SIMILARITY_THRESHOLD

\* `similarity >= SIMILARITY_THRESHOLD` for one candidate.
SimilarEnough(n) == n >= SIMILARITY_THRESHOLD

RECURSIVE MustMatchLoop(_, _)
MustMatchLoop(docs, i) ==
    IF i > Len(docs) THEN PyFalse
    ELSE IF ~docs[i].obj THEN Raise
    ELSE IF GetScore(docs[i]).k # "num" THEN Raise
    ELSE IF SimilarEnough(GetScore(docs[i]).n)
            /\ ReportIsDict(docs[i])
            /\ CandNos(docs[i]) = Num(0)
         THEN PyTrue
    ELSE MustMatchLoop(docs, i + 1)

check_must_match_filter_category(item) ==
    LET cache_results_str == get_nested_value(item, "cache_query_results", "S", NoneStr)
        cache_results == parse_json_string(cache_results_str)
    IN  IF StrFalsy(cache_results_str) THEN PyFalse
        ELSE IF ~JTruthy(cache_results) \/ cache_results.j # "list" THEN PyFalse
        ELSE MustMatchLoop(cache_results.items, 1)

RECURSIVE FailedAfterLoop(_, _)
FailedAfterLoop(docs, i) ==
    IF i > Len(docs) THEN PyFalse
    ELSE IF ~docs[i].obj THEN Raise
    ELSE IF GetScore(docs[i]).k # "num" THEN Raise
    ELSE IF SimilarEnough(GetScore(docs[i]).n)
            /\ NotUsed(docs[i])
            /\ ReportIsDict(docs[i])
            /\ CandNos(docs[i]).k = "num"
            /\ CandNos(docs[i]).n # 0
         THEN PyTrue
    ELSE FailedAfterLoop(docs, i + 1)

check_failed_after_similar_doc_category(item) ==
    LET cache_results_str == get_nested_value(item, "cache_query_results", "S", NoneStr)
        cache_results == parse_json_string(cache_results_str)
    IN  IF StrFalsy(cache_results_str) THEN PyFalse
        ELSE IF ~JTruthy(cache_results) \/ cache_results.j # "list" THEN PyFalse
        ELSE FailedAfterLoop(cache_results.items, 1)

(***************************************************************************)
(* The four check functions command_stats/analyzer.py imports from         *)
(* classifier that the repository's classifier.py does not define: taken   *)
(* from the predicate table of the specification.                          *)
(***************************************************************************)
\* str.lower() on one word token.
Lower(tok) ==
    CASE tok = "UNDOABLE" -> "undoable"
      [] tok = "Undoable" -> "undoable"
      [] tok = "Unblock: " -> "unblock: "
      [] OTHER -> tok

\* needle in text.lower()
ContainsLower(text, needle) == \E i \in 1..Len(text) : Lower(text[i]) = needle

check_undoable_category(item) ==
    IF item.llm_output.t = "S" /\ ContainsLower(item.llm_output.v, "undoable")
    THEN PyTrue ELSE PyFalse

check_dynamic_component(item) ==
    IF get_nested_value(item, "ensemble_used", "BOOL", PyNone) = PyTrue
    THEN PyTrue ELSE PyFalse

check_null_llm_output(item) ==
    IF item.llm_output.t = "S" /\ item.llm_output.v = <<>>
    THEN PyTrue ELSE PyFalse

check_cache_read_status_none(item) ==
    IF ~HasKey(item, "cache_read_status") THEN PyTrue ELSE PyFalse

(***************************************************************************)
(* command_stats/analyzer.py: analyze_cache_miss_reason.  The checks run   *)
(* in the order written; the first truthy one decides, and an exception    *)
(* of the check being evaluated leaves the function.                       *)
(***************************************************************************)
RECURSIVE FirstMatch(_, _)
FirstMatch(cascade, i) ==
    IF i > Len(cascade) THEN UNCLASSIFIED
    ELSE IF cascade[i].result = Raise THEN Raise
    ELSE IF Truthy(cascade[i].result) THEN cascade[i].category
    ELSE FirstMatch(cascade, i + 1)

analyze_cache_miss_reason(item) ==
    FirstMatch(
        << [result |-> check_undoable_category(item), category |-> "undoable"],
           [result |-> check_unblocker_category(item), category |-> "unblocker_call"],
           [result |-> check_ocr_category(item), category |-> "ocr_steps"],
           [result |-> check_dynamic_component(item), category |-> "dynamic_step"],
           [result |-> check_failed_step_category(item), category |-> "failed_step"],
           [result |-> check_null_llm_output(item), category |-> "null_llm_output"],
           [result |-> check_cache_read_status_none(item), category |-> "cache_read_status_none"],
           [result |-> check_no_documents_found_category(item), category |-> "no_cache_documents_found"],
           [result |-> check_less_similarity_category(item), category |-> "less_similarity_threshold"],
           [result |-> check_must_match_filter_category(item),
            category |-> "failed_at_cand_nos_after_must_match_filter"],
           [result |-> check_failed_after_similar_doc_category(item),
            category |-> "failed_after_similar_document_found_with_threshold_after_must_match_filter"]
        >>, 1)

(***************************************************************************)
(* classifier.py: classify_step.  Every check is evaluated and each truthy *)
(* one appends its category; only an empty list gets "unclassified" and a  *)
(* diagnosis.                                                              *)
(***************************************************************************)
\* diagnose_unclassified_step iterates the parsed cache_query_results
\* whenever it is truthy and calls .get on each element; it is reached
\* only when no check matched (so none raised).
diagnose_unclassified_step(item) ==
    LET cache_results_str == get_nested_value(item, "cache_query_results", "S", NoneStr)
        cache_results == parse_json_string(cache_results_str)
    IN  IF StrFalsy(cache_results_str) THEN "diagnosis"
        ELSE IF ~JTruthy(cache_results) THEN "diagnosis"
        ELSE IF cache_results.j # "list" THEN Raise
        ELSE IF \E i \in 1..Len(cache_results.items) :
                    ~cache_results.items[i].obj
                    \/ GetScore(cache_results.items[i]).k # "num"
             THEN Raise
        ELSE "diagnosis"

StepChecks(item) ==
    << [result |-> check_unblocker_category(item), category |-> UNBLOCKER_CALL],
       [result |-> check_no_documents_found_category(item), category |-> NO_CACHE_DOCUMENTS_FOUND],
       [result |-> check_ocr_category(item), category |-> OCR_STEPS],
       [result |-> check_failed_step_category(item), category |-> FAILED_STEP],
       [result |-> check_dynamic_components_category(item), category |-> CACHE_READ_STATUS_NONE],
       [result |-> check_less_similarity_category(item), category |-> LESS_SIMILARITY_THRESHOLD],
       [result |-> check_must_match_filter_category(item), category |-> FAILED_AT_MUST_MATCH_FILTER],
       [result |-> check_failed_after_similar_doc_category(item), category |-> FAILED_AFTER_SIMILAR_DOC] >>

RECURSIVE Appended(_, _)
Appended(cascade, i) ==
    IF i > Len(cascade) THEN <<>>
    ELSE IF Truthy(cascade[i].result)
         THEN <<cascade[i].category>> \o Appended(cascade, i + 1)
         ELSE Appended(cascade, i + 1)

\* [raised, list, diagnosis]: the exception flag, the categories list and
\* the second element of the returned tuple.
classify_step(item) ==
    LET cs == StepChecks(item)
        found == Appended(cs, 1)
    IN  IF \E i \in 1..Len(cs) : cs[i].result = Raise
        THEN [raised |-> TRUE, list |-> <<>>, diagnosis |-> PyNone]
        ELSE IF Len(found) = 0
             THEN IF diagnose_unclassified_step(item) = Raise
                  THEN [raised |-> TRUE, list |-> <<>>, diagnosis |-> PyNone]
                  ELSE [raised |-> FALSE, list |-> <<UNCLASSIFIED>>,
                        diagnosis |-> diagnose_unclassified_step(item)]
             ELSE [raised |-> FALSE, list |-> found, diagnosis |-> PyNone]

\* The outcome of each check function on one item.
AllChecks(item) ==
    [undoable |-> check_undoable_category(item),
     unblocker_call |-> check_unblocker_category(item),
     ocr_steps |-> check_ocr_category(item),
     dynamic_step |-> check_dynamic_component(item),
     failed_step |-> check_failed_step_category(item),
     null_llm_output |-> check_null_llm_output(item),
     cache_read_status_none |-> check_cache_read_status_none(item),
     no_cache_documents_found |-> check_no_documents_found_category(item),
     less_similarity_threshold |-> check_less_similarity_category(item),
     failed_at_must_match_filter |-> check_must_match_filter_category(item),
     failed_after_similar_document |-> check_failed_after_similar_doc_category(item)]

(***************************************************************************)
(* Input items.                                                            *)
(***************************************************************************)
JsonText(val) == [text |-> "json", json |-> val]

Scores == {Num(50), Num(60), Num(75), Num(90)}

\* Candidate documents with every field present and of the expected type.
WellFormedDocs ==
    {Doc(sc, used, rep) :
        sc \in Scores, used \in {"true", "false"},
        rep \in {NoReport, Report(Num(0)), Report(Num(2))}}

\* Elements that are not objects, or lack or null a field.
MalformedDocs ==
    {NotADoc,
     Doc(NullVal, "false", Report(Num(0))),
     Doc(NoVal, "false", NoReport),
     Doc(Num(90), "absent", Report(NullVal)),
     Doc(Num(90), "false", [k |-> "str", cand |-> NoVal])}

Docs == WellFormedDocs \cup MalformedDocs

DocLists == UNION {[1..n -> Docs] : n \in 0..MaxCands}

\* cache_query_results attributes: every candidate list up to MaxCands.
ListResults == {AttrS(JsonText(JList(docs))) : docs \in DocLists}

\* cache_query_results attributes that are missing or hold no list.
NonListResults ==
    {AbsentResults,
     AttrS([text |-> "empty", json |-> JNull]),
     AttrS([text |-> "NA", json |-> JNull]),
     AttrS([text |-> "garbage", json |-> JNull]),
     AttrS(JsonText(JNull)),
     AttrS(JsonText(JObj))}

\* A few candidate lists for the items that vary every other field.
BasicResults ==
    NonListResults \cup
    {AttrS(JsonText(JList(<<Doc(Num(50), "false", NoReport)>>))),
     AttrS(JsonText(JList(<<Doc(Num(90), "false", Report(Num(0)))>>))),
     AttrS(JsonText(JList(<<Doc(Num(90), "false", Report(Num(2)))>>))),
     AttrS(JsonText(JList(<<NotADoc>>)))}

LlmOutputs ==
    {AbsentText, AttrS(<<>>), AttrS(<<"Step was ", "UNDOABLE", ": pass">>),
     AttrS(<<"Unblock: ", "dismiss popup">>), AttrS(<<"tap at 10,20">>)}

Blockers == {Absent, AttrBool(TRUE), AttrBool(FALSE), AttrS("TRUE"), AttrS("true"), AttrS("no")}

OcrOutputs == {Absent, AttrS(""), AttrS("NA"), AttrS("Submit")}

EnsembleFlags == {Absent, AttrBool(TRUE), AttrBool(FALSE)}

TestStatuses == {Absent, AttrS("FAILED"), AttrS("SUCCESS")}

CacheStatuses == {Absent, AttrN("1"), AttrN("0"), AttrN("-1")}

\* Items that vary the fields of the higher-priority checks.
CascadeItems ==
    [command : {AttrS("Tap Submit")},
     app_package : {AttrS("com.shop")},
     created_at : {AttrS(<<"2025-10-07", "T16:37:17">>)},
     cache_read_latency : {Absent},
     step_classification : {AttrS("TAP")},
     llm_output : LlmOutputs,
     is_blocker : Blockers,
     ocr_output : OcrOutputs,
     ensemble_used : EnsembleFlags,
     test_step_status : TestStatuses,
     cache_read_status : CacheStatuses,
     cache_query_results : BasicResults]

\* Items on which no check above the cache_query_results checks can match
\* except through cache_read_status, with every candidate list.
CandidateItems ==
    [command : {AttrS("Tap Submit")},
     app_package : {AttrS("com.shop")},
     created_at : {AttrS(<<"2025-10-07", "T16:37:17">>)},
     cache_read_latency : {Absent},
     step_classification : {AttrS("TAP")},
     llm_output : {AttrS(<<"tap at 10,20">>)},
     is_blocker : {Absent},
     ocr_output : {Absent},
     ensemble_used : {Absent},
     test_step_status : {AttrS("SUCCESS")},
     cache_read_status : {Absent, AttrN("0"), AttrN("-1")},
     cache_query_results : ListResults]

ClassifierItems == CascadeItems \cup CandidateItems

NoChecks == [c \in {} |-> PyNone]

NoCategories == [raised |-> FALSE, list |-> <<>>, diagnosis |-> NotRun]

\* run_bulk_analysis has not been called.
NoArgs ==
    [generate_individual |-> FALSE, generate_command_package |-> FALSE,
     start_date |-> PyNone, end_date |-> PyNone]

\* Nothing has been written to output_dir.
NoSummary ==
    [total_steps_processed |-> 0, unique_commands_found |-> 0,
     command_package_combinations |-> 0,
     individual_command_files_generated |-> 0,
     command_package_files_generated |-> 0]

\* files are the files of output_dir: a filename is mapped to the keys
\* whose report was written under it (the file holds the last one written).
NoReports ==
    [written |-> FALSE, individual |-> <<>>, command_package |-> <<>>,
     files |-> [individual |-> <<>>, command_package |-> <<>>],
     summary |-> NoSummary]

\* scan_command_steps_with_pagination has not been called.
NoScan ==
    [matches |-> FALSE, created_at |-> <<>>, start_date |-> <<>>,
     end_date |-> <<>>, yielded |-> PyNone]

(***************************************************************************)
(* The classifier applied to one item.                                     *)
(***************************************************************************)
InitAggregator ==
    /\ command_stats = <<>>
    /\ command_package_stats = <<>>
    /\ total_steps_processed = 0

InitClassify ==
    /\ step \in ClassifierItems
    /\ checks = NoChecks
    /\ miss_reason = NotRun
    /\ categories = NoCategories
    /\ pc = "input"
    /\ InitAggregator
    /\ run_args = NoArgs
    /\ reports = NoReports
    /\ scan = NoScan

RunChecks ==
    /\ pc = "input"
    /\ checks' = AllChecks(step)
    /\ pc' = "checked"
    /\ UNCHANGED <<step, miss_reason, categories, command_stats,
                   command_package_stats, total_steps_processed,
                   run_args, reports, scan>>

AnalyzeCacheMissReason ==
    /\ pc = "input"
    /\ miss_reason' = analyze_cache_miss_reason(step)
    /\ pc' = "analyzed"
    /\ UNCHANGED <<step, checks, categories, command_stats,
                   command_package_stats, total_steps_processed,
                   run_args, reports, scan>>

ClassifyStep ==
    /\ pc = "input"
    /\ categories' = classify_step(step)
    /\ pc' = "classified"
    /\ UNCHANGED <<step, checks, miss_reason, command_stats,
                   command_package_stats, total_steps_processed,
                   run_args, reports, scan>>

NextClassify == RunChecks \/ AnalyzeCacheMissReason \/ ClassifyStep

SpecClassify == InitClassify /\ [][NextClassify]_vars

(***************************************************************************)
(* What the claims say of an item, stated on the item's fields.            *)
(***************************************************************************)
\* The candidate list cache_query_results encodes (empty when it encodes none).
Candidates(item) ==
    IF item.cache_query_results.t = "S"
       /\ item.cache_query_results.v.text = "json"
       /\ item.cache_query_results.v.json.j = "list"
    THEN item.cache_query_results.v.json.items
    ELSE <<>>

\* A candidate's score as a number; a candidate without the key counts as 0.
HasScore(doc) == doc.obj /\ doc.score.k # "null"

ScoreOf(doc) == IF doc.score.k = "num" THEN doc.score.n ELSE 0

LlmContains(item, needle) ==
    /\ item.llm_output.t = "S"
    /\ \E i \in 1..Len(item.llm_output.v) : Lower(item.llm_output.v[i]) = needle

IsBlocker(item) ==
    item.is_blocker \in {AttrBool(TRUE), AttrS("TRUE"), AttrS("true")}

AllCandidatesBelow(item) ==
    /\ Len(Candidates(item)) > 0
    /\ \A i \in 1..Len(Candidates(item)) :
          HasScore(Candidates(item)[i])
          /\ ScoreOf(Candidates(item)[i]) < SIMILARITY_THRESHOLD

\* Some candidate scoring sc-or-more passed the similarity search and the
\* must-match filter left it no component.
FilteredOut(item, sc) ==
    \E i \in 1..Len(Candidates(item)) :
        LET d == Candidates(item)[i]
        IN  HasScore(d) /\ ScoreOf(d) >= sc
            /\ d.report.k = "obj" /\ d.report.cand = Num(0)

\* Some unused candidate scoring sc-or-more kept components after the filter.
LeftAfterFilter(item, sc) ==
    \E i \in 1..Len(Candidates(item)) :
        LET d == Candidates(item)[i]
        IN  HasScore(d) /\ ScoreOf(d) >= sc /\ d.is_used # "true"
            /\ d.report.k = "obj" /\ d.report.cand.k = "num" /\ d.report.cand.n # 0

\* Every list element is an object whose similarity_score is a number or missing.
CandidatesReadable(item) ==
    \A i \in 1..Len(Candidates(item)) : HasScore(Candidates(item)[i])

\* The eleven predicates in priority order, as [holds, category].
Predicates(item) ==
    << [holds |-> LlmContains(item, "undoable"), category |-> UNDOABLE],
       [holds |-> IsBlocker(item), category |-> UNBLOCKER_CALL],
       [holds |-> item.ocr_output.t = "S" /\ item.ocr_output.v \notin {"", "NA"},
        category |-> OCR_STEPS],
       [holds |-> item.ensemble_used = AttrBool(TRUE), category |-> DYNAMIC_STEP],
       [holds |-> item.test_step_status = AttrS("FAILED"), category |-> FAILED_STEP],
       [holds |-> item.llm_output = AttrS(<<>>), category |-> NULL_LLM_OUTPUT],
       [holds |-> item.cache_read_status.t = "ABSENT", category |-> CACHE_READ_STATUS_NONE],
       [holds |-> item.cache_read_status = AttrN("-1"), category |-> NO_CACHE_DOCUMENTS_FOUND],
       [holds |-> AllCandidatesBelow(item), category |-> LESS_SIMILARITY_THRESHOLD],
       [holds |-> FilteredOut(item, SIMILARITY_THRESHOLD),
        category |-> FAILED_AT_MUST_MATCH_FILTER],
       [holds |-> LeftAfterFilter(item, SIMILARITY_THRESHOLD),
        category |-> FAILED_AFTER_SIMILAR_DOC] >>

\* No predicate of priority 0 to 5 holds.
NoneOfFirstSix(item) == \A k \in 1..6 : ~Predicates(item)[k].holds

HighestPriority(item) ==
    IF \A k \in 1..Len(Predicates(item)) : ~Predicates(item)[k].holds
    THEN UNCLASSIFIED
    ELSE LET k == CHOOSE k \in 1..Len(Predicates(item)) :
                    /\ Predicates(item)[k].holds
                    /\ \A j \in 1..(k - 1) : ~Predicates(item)[j].holds
         IN  Predicates(item)[k].category

(***************************************************************************)
(* C1: analyze_cache_miss_reason returns, for every item, the category of  *)
(* the highest-priority predicate that holds (unblocker_call read as the   *)
(* is_blocker flag and "similar" as a score of at least the threshold, as  *)
(* the check functions read them), and unclassified exactly when none      *)
(* holds.                                                                  *)
(***************************************************************************)
C1_FirstMatchCascade ==
    pc = "analyzed" => miss_reason = HighestPriority(step)

(***************************************************************************)
(* C2: the categories list classify_step returns always has length 1.      *)
(***************************************************************************)
C2_ExactlyOneCategory ==
    (pc = "classified" /\ ~categories.raised) => Len(categories.list) = 1

(***************************************************************************)
(* C3: an item without the cache_read_status attribute is never assigned   *)
(* no_cache_documents_found or less_similarity_threshold, neither by       *)
(* analyze_cache_miss_reason nor by classify_step.                         *)
(***************************************************************************)
C3_AbsentStatusPreempts ==
    step.cache_read_status.t = "ABSENT" =>
        /\ pc = "analyzed" =>
              miss_reason \notin {NO_CACHE_DOCUMENTS_FOUND, LESS_SIMILARITY_THRESHOLD}
        /\ pc = "classified" =>
              \A i \in 1..Len(categories.list) :
                  categories.list[i] \notin
                      {NO_CACHE_DOCUMENTS_FOUND, LESS_SIMILARITY_THRESHOLD}

(***************************************************************************)
(* C4: an item with cache_read_status -1 on which none of the six          *)
(* higher-priority predicates holds is classified no_cache_documents_found *)
(* whatever its cache_query_results.                                       *)
(***************************************************************************)
C4_MinusOneIsNoDocuments ==
    (pc = "analyzed" /\ step.cache_read_status = AttrN("-1") /\ NoneOfFirstSix(step))
        => miss_reason = NO_CACHE_DOCUMENTS_FOUND

(***************************************************************************)
(* C5: check_less_similarity_category holds exactly when                   *)
(* cache_query_results parses to a non-empty list and every candidate      *)
(* scores strictly below the threshold (a candidate with no score key      *)
(* counting as 0); status 0 with such a list and no higher-priority match  *)
(* is classified less_similarity_threshold.                                *)
(***************************************************************************)
C5_LessSimilarityExactly ==
    /\ pc = "checked" =>
          (checks.less_similarity_threshold = PyTrue <=> AllCandidatesBelow(step))
    /\ (pc = "analyzed" /\ step.cache_read_status = AttrN("0")
        /\ NoneOfFirstSix(step) /\ AllCandidatesBelow(step))
          => miss_reason = LESS_SIMILARITY_THRESHOLD

\* Status 0, candidates 0.5 and 0.6: classified less_similarity_threshold.
C5_Witness ==
    /\ pc = "analyzed"
    /\ step.cache_read_status = AttrN("0")
    /\ Len(Candidates(step)) = 2
    /\ ScoreOf(Candidates(step)[1]) = 50
    /\ ScoreOf(Candidates(step)[2]) = 60
    /\ miss_reason = LESS_SIMILARITY_THRESHOLD

\* Every candidate of a non-empty list scores exactly the threshold.
OnlyThresholdCandidates(item) ==
    /\ Len(Candidates(item)) > 0
    /\ \A i \in 1..Len(Candidates(item)) :
          Candidates(item)[i].obj /\ Candidates(item)[i].score = Num(SIMILARITY_THRESHOLD)

(***************************************************************************)
(* C6 as claimed: an item whose only candidates score exactly the          *)
(* threshold is assigned neither failed_at_must_match_filter nor           *)
(* failed_after_similar_document.                                          *)
(***************************************************************************)
C6_StrictlyAboveThreshold ==
    (pc = "analyzed" /\ OnlyThresholdCandidates(step))
        => miss_reason \notin {FAILED_AT_MUST_MATCH_FILTER, FAILED_AFTER_SIMILAR_DOC}

(***************************************************************************)
(* C6 amended: the two checks count a candidate as similar when its        *)
(* similarity_score is at least the threshold.  On a readable candidate    *)
(* list check_must_match_filter_category holds exactly when some candidate *)
(* scoring >= 0.75 has cand_nos_after_must_match_filter == 0, and          *)
(* check_failed_after_similar_doc_category exactly when some unused        *)
(* candidate scoring >= 0.75 has a non-null, non-zero count; neither ever  *)
(* holds without such a candidate.                                         *)
(***************************************************************************)
C6_AtLeastThreshold ==
    pc = "checked" =>
        /\ checks.failed_at_must_match_filter = PyTrue
              => FilteredOut(step, SIMILARITY_THRESHOLD)
        /\ checks.failed_after_similar_document = PyTrue
              => LeftAfterFilter(step, SIMILARITY_THRESHOLD)
        /\ CandidatesReadable(step) =>
              /\ FilteredOut(step, SIMILARITY_THRESHOLD)
                    => checks.failed_at_must_match_filter = PyTrue
              /\ LeftAfterFilter(step, SIMILARITY_THRESHOLD)
                    => checks.failed_after_similar_document = PyTrue

\* Only candidates at exactly 0.75, and the must-match check holds.
C6_Witness ==
    /\ pc = "checked"
    /\ OnlyThresholdCandidates(step)
    /\ checks.failed_at_must_match_filter = PyTrue

(***************************************************************************)
(* C7 as claimed: check_unblocker_category holds exactly when llm_output   *)
(* is present and contains "unblock: " (case-insensitive).                 *)
(***************************************************************************)
C7_UnblockerReadsLlmOutput ==
    pc = "checked" =>
        (checks.unblocker_call = PyTrue <=> LlmContains(step, "unblock: "))

(***************************************************************************)
(* C7 amended: check_unblocker_category holds exactly when is_blocker is   *)
(* the boolean true or the string "TRUE" or "true"; it depends on no other *)
(* field, llm_output included.                                             *)
(***************************************************************************)
C7_UnblockerReadsIsBlocker ==
    pc = "checked" => (checks.unblocker_call = PyTrue <=> IsBlocker(step))

\* is_blocker is the string "TRUE", llm_output has no "unblock: ", and the
\* check holds.
C7_Witness ==
    /\ pc = "checked"
    /\ step.is_blocker = AttrS("TRUE")
    /\ ~LlmContains(step, "unblock: ")
    /\ checks.unblocker_call = PyTrue

(***************************************************************************)
(* C8: classification never raises: no check function, neither             *)
(* analyze_cache_miss_reason nor classify_step lets an exception escape,   *)
(* whatever cache_query_results holds.                                     *)
(***************************************************************************)
C8_NeverRaises ==
    /\ pc = "checked" => \A c \in DOMAIN checks : checks[c] # Raise
    /\ pc = "analyzed" => miss_reason # Raise
    /\ pc = "classified" => ~categories.raised

(***************************************************************************)
(* utils.py: convert_dynamodb_item_to_dict, one attribute at a time.       *)
(* Numbers are integers; a latency is counted in thousandths of a second.  *)
(***************************************************************************)
\* int(number_str) / float(number_str)
NumberOf(number_str) ==
    CASE number_str = "1" -> 1
      [] number_str = "0" -> 0
      [] number_str = "-1" -> -1
      [] number_str = "0.2" -> 200
      [] number_str = "0.3" -> 300
      [] OTHER -> 0

\* step_data.get(attr, default) for a string attribute.
GetString(item, attr, default) ==
    IF item[attr].t = "S" THEN item[attr].v ELSE default

\* step_data.get(attr) for a number attribute: [none, n].
GetNumber(item, attr) ==
    IF item[attr].t = "N"
    THEN [none |-> FALSE, n |-> NumberOf(item[attr].v)]
    ELSE [none |-> TRUE, n |-> 0]

(***************************************************************************)
(* bulk_analyzer.py: BulkCommandAggregator.                                *)
(***************************************************************************)
_init_breakdown_stats == [c \in Categories |-> 0]

Incremented_ForgetsOthers(d, k) ==
    IF k \in DOMAIN d THEN [d EXCEPT ![k] = @ + 1] ELSE (k :> 1)

\* d[k] = d.get(k, 0) + 1 on a dict kept as a function.
Incremented(d, k) ==
    IF k \in DOMAIN d THEN [d EXCEPT ![k] = @ + 1] ELSE d @@ (k :> 1)

PackageIncremented_OncePerPackage(packages, p) ==
    IF \E i \in 1..Len(packages) : packages[i].package = p
    THEN packages
    ELSE Append(packages, [package |-> p, n |-> 1])

\* The same on app_packages, kept as a sequence of [package, n] in
\* insertion order.
PackageIncremented(packages, p) ==
    IF \E i \in 1..Len(packages) : packages[i].package = p
    THEN [i \in 1..Len(packages) |->
             IF packages[i].package = p
             THEN [packages[i] EXCEPT !.n = @ + 1]
             ELSE packages[i]]
    ELSE Append(packages, [package |-> p, n |-> 1])

\* `cache_status in [0, -1, None]`
IsMissStatus(cache_status) == cache_status.none \/ cache_status.n \in {0, -1}

IsHitStatus(cache_status) == ~cache_status.none /\ cache_status.n = 1

IsZeroStatus_AnyNumberedMiss(cache_status) ==
    ~cache_status.none /\ cache_status.n \in {0, -1}

IsZeroStatus(cache_status) == ~cache_status.none /\ cache_status.n = 0

\* `if cache_latency`
LatencyTruthy(cache_latency) == ~cache_latency.none /\ cache_latency.n # 0

\* created_at[:10] if created_at else 'unknown'
DateKey(item) ==
    LET created_at == GetString(item, "created_at", <<"", "">>)
    IN  IF created_at = <<"", "">> THEN "unknown" ELSE created_at[1]

MissCategory_NoFallback(item) ==
    IF IsMissStatus(GetNumber(item, "cache_read_status"))
       /\ analyze_cache_miss_reason(item) # Raise
    THEN analyze_cache_miss_reason(item)
    ELSE PyNone

\* The try/except around analyze_cache_miss_reason in both update methods;
\* PyNone when the record is not a miss.
MissCategory(item) ==
    IF IsMissStatus(GetNumber(item, "cache_read_status"))
    THEN IF analyze_cache_miss_reason(item) = Raise
         THEN "unclassified"
         ELSE analyze_cache_miss_reason(item)
    ELSE PyNone

\* The bucket the first record of a key creates (app_packages excluded).
NewBucket(item) ==
    LET cache_status == GetNumber(item, "cache_read_status")
        cache_latency == GetNumber(item, "cache_read_latency")
        miss_category == MissCategory(item)
        breakdown == _init_breakdown_stats
    IN  [count |-> 1,
         cache_hits |-> IF IsHitStatus(cache_status) THEN 1 ELSE 0,
         cache_misses |-> IF IsMissStatus(cache_status) THEN 1 ELSE 0,
         cache_hit_without_component |-> IF IsZeroStatus(cache_status) THEN 1 ELSE 0,
         date_distribution |-> (DateKey(item) :> 1),
         step_classifications |-> (GetString(item, "step_classification", "UNKNOWN") :> 1),
         test_step_status |-> (GetString(item, "test_step_status", "UNKNOWN") :> 1),
         cache_latencies |-> IF LatencyTruthy(cache_latency)
                             THEN <<cache_latency.n>> ELSE <<>>,
         cache_miss_breakdown |->
             IF miss_category # PyNone
             THEN [breakdown EXCEPT ![miss_category] = @ + 1]
             ELSE breakdown]

\* The else branch: the bucket exists (app_packages excluded).
UpdatedBucket(stats, item) ==
    LET cache_status == GetNumber(item, "cache_read_status")
        cache_latency == GetNumber(item, "cache_read_latency")
        miss_category == MissCategory(item)
    IN  [stats EXCEPT
            !.count = @ + 1,
            !.cache_hits = IF IsHitStatus(cache_status) THEN @ + 1 ELSE @,
            !.cache_misses =
                IF ~IsHitStatus(cache_status) /\ IsMissStatus(cache_status)
                THEN @ + 1 ELSE @,
            !.cache_miss_breakdown =
                IF ~IsHitStatus(cache_status) /\ IsMissStatus(cache_status)
                   /\ miss_category # PyNone
                THEN [@ EXCEPT ![miss_category] = @ + 1] ELSE @,
            !.cache_hit_without_component =
                IF IsZeroStatus(cache_status) THEN @ + 1 ELSE @,
            !.date_distribution = Incremented(@, DateKey(item)),
            !.step_classifications =
                Incremented(@, GetString(item, "step_classification", "UNKNOWN")),
            !.test_step_status =
                Incremented(@, GetString(item, "test_step_status", "UNKNOWN")),
            !.cache_latencies =
                IF LatencyTruthy(cache_latency) THEN Append(@, cache_latency.n) ELSE @]

\* A list value (an L attribute) cannot be a dict key: using it as one
\* raises TypeError.
Unhashable(item, attr) == item[attr].t = "L"

\* update_command_stats raises at `command not in self.command_stats`, in
\* the dict literal of a new bucket, or at the app_packages update of an
\* existing one.
update_command_stats_raises(stats_by_command, item) ==
    Unhashable(item, "command") \/ Unhashable(item, "app_package")

\* update_command_stats: the value of command_stats the call leaves behind
\* (when it raises, what it had assigned before the exception).
update_command_stats(stats_by_command, item) ==
    LET command == GetString(item, "command", "UNKNOWN_COMMAND")
        app_package == GetString(item, "app_package", "UNKNOWN_PACKAGE")
    IN  IF Unhashable(item, "command") THEN stats_by_command
        ELSE IF command \notin DOMAIN stats_by_command
        THEN IF Unhashable(item, "app_package") THEN stats_by_command ELSE
             stats_by_command @@
             (command :>
                 [count |-> NewBucket(item).count,
                  app_packages |-> <<[package |-> app_package, n |-> 1]>>,
                  cache_hits |-> NewBucket(item).cache_hits,
                  cache_misses |-> NewBucket(item).cache_misses,
                  cache_hit_without_component |-> NewBucket(item).cache_hit_without_component,
                  date_distribution |-> NewBucket(item).date_distribution,
                  step_classifications |-> NewBucket(item).step_classifications,
                  test_step_status |-> NewBucket(item).test_step_status,
                  cache_latencies |-> NewBucket(item).cache_latencies,
                  cache_miss_breakdown |-> NewBucket(item).cache_miss_breakdown])
        ELSE IF Unhashable(item, "app_package")
        THEN [stats_by_command EXCEPT ![command].count = @ + 1]
        ELSE [stats_by_command EXCEPT ![command] =
                 [UpdatedBucket(@, item) EXCEPT
                     !.app_packages = PackageIncremented(@, app_package)]]

\* update_command_package_stats raises at `key not in
\* self.command_package_stats`, before it assigns anything.
update_command_package_stats_raises(stats_by_key, item) ==
    Unhashable(item, "command") \/ Unhashable(item, "app_package")

update_command_package_stats_DropsOthers(stats_by_key, item) ==
    LET command == GetString(item, "command", "UNKNOWN_COMMAND")
        app_package == GetString(item, "app_package", "UNKNOWN_PACKAGE")
        key == <<command, app_package>>
    IN  IF update_command_package_stats_raises(stats_by_key, item) THEN stats_by_key
        ELSE IF key \notin DOMAIN stats_by_key
        THEN (key :> NewBucket(item))
        ELSE [stats_by_key EXCEPT ![key] = UpdatedBucket(@, item)]

\* update_command_package_stats: the new value of command_package_stats.
update_command_package_stats(stats_by_key, item) ==
    LET command == GetString(item, "command", "UNKNOWN_COMMAND")
        app_package == GetString(item, "app_package", "UNKNOWN_PACKAGE")
        key == <<command, app_package>>
    IN  IF update_command_package_stats_raises(stats_by_key, item) THEN stats_by_key
        ELSE IF key \notin DOMAIN stats_by_key
        THEN stats_by_key @@ (key :> NewBucket(item))
        ELSE [stats_by_key EXCEPT ![key] = UpdatedBucket(@, item)]

(***************************************************************************)
(* bulk_analyzer.py: finalization.  A percentage text f"{p:.2f}%" is the   *)
(* record [whole, hundredths, suffix]; an average latency is the pair      *)
(* [sum, n] of the sum of the latencies and their number.                  *)
(***************************************************************************)
\* The integer nearest to num / den, a tie going to the even one (what
\* the .2f format does with a value that is exactly halfway).
RoundHalfEven(num, den) ==
    LET q == num \div den
        r == num % den
    IN  IF 2 * r < den THEN q
        ELSE IF 2 * r > den THEN q + 1
        ELSE IF q % 2 = 0 THEN q ELSE q + 1

FormatPercent_Truncated(n, d) ==
    [whole |-> ((10000 * n) \div d) \div 100,
     hundredths |-> ((10000 * n) \div d) % 100,
     suffix |-> "%"]

\* f"{(n / d) * 100:.2f}%"
FormatPercent(n, d) ==
    [whole |-> RoundHalfEven(10000 * n, d) \div 100,
     hundredths |-> RoundHalfEven(10000 * n, d) % 100,
     suffix |-> "%"]

\* (n / total) * 100 if total > 0 else 0, formatted.
PercentageOf(n, total) ==
    IF total > 0 THEN FormatPercent(n, total) ELSE FormatPercent(0, 1)

_format_breakdown_for_report(breakdown, total_misses) ==
    [category \in DOMAIN breakdown |->
        [count |-> breakdown[category],
         percentage |-> IF total_misses > 0
                        THEN FormatPercent(breakdown[category], total_misses)
                        ELSE FormatPercent(0, 1)]]

RECURSIVE SumOfLatencies(_, _)
SumOfLatencies(latencies, i) ==
    IF i > Len(latencies) THEN 0
    ELSE latencies[i] + SumOfLatencies(latencies, i + 1)

\* sum(l) / len(l) if l else 0.0
AverageLatency(latencies) ==
    IF Len(latencies) > 0
    THEN [sum |-> SumOfLatencies(latencies, 1), n |-> Len(latencies)]
    ELSE [sum |-> 0, n |-> 1]

RECURSIVE MaxByCount_LastWins(_, _, _)
MaxByCount_LastWins(packages, i, best) ==
    IF i > Len(packages) THEN packages[best].package
    ELSE IF packages[i].n >= packages[best].n
         THEN MaxByCount_LastWins(packages, i + 1, i)
         ELSE MaxByCount_LastWins(packages, i + 1, best)

\* max(items, key=count): the running maximum is replaced only by a
\* strictly greater count, in the iteration order of the dict.
RECURSIVE MaxByCount(_, _, _)
MaxByCount(packages, i, best) ==
    IF i > Len(packages) THEN packages[best].package
    ELSE IF packages[i].n > packages[best].n
         THEN MaxByCount(packages, i + 1, i)
         ELSE MaxByCount(packages, i + 1, best)

most_common_package(packages) ==
    IF Len(packages) > 0 THEN MaxByCount(packages, 2, 1) ELSE "UNKNOWN_PACKAGE"

\* The order of the date keys as strings ("unknown" sorts after a date).
DateRank(d) ==
    CASE d = "2025-10-07" -> 7
      [] d = "2025-10-08" -> 8
      [] OTHER -> 99

\* min(...keys()) and max(...keys()) of date_distribution.
date_range(date_distribution) ==
    IF DOMAIN date_distribution = {} THEN [start |-> PyNone, end |-> PyNone]
    ELSE
    [start |-> CHOOSE d \in DOMAIN date_distribution :
                   \A e \in DOMAIN date_distribution : DateRank(d) <= DateRank(e),
     end |-> CHOOSE d \in DOMAIN date_distribution :
                   \A e \in DOMAIN date_distribution : DateRank(d) >= DateRank(e)]

\* The fields the two report files share.
ReportBody(stats) ==
    [total_step_runs |-> stats.count,
     date_range |-> date_range(stats.date_distribution),
     cache_hit |->
        [count |-> stats.cache_hits,
         percentage |-> PercentageOf(stats.cache_hits, stats.count),
         average_latency |-> AverageLatency(stats.cache_latencies)],
     cache_miss |->
        [count |-> stats.cache_misses,
         percentage |-> PercentageOf(stats.cache_misses, stats.count),
         breakdown |-> _format_breakdown_for_report(stats.cache_miss_breakdown,
                                                    stats.cache_misses)],
     cache_hit_without_component |->
        [count |-> stats.cache_hit_without_component,
         percentage |-> PercentageOf(stats.cache_hit_without_component, stats.count)],
     step_classifications |-> stats.step_classifications,
     test_step_status |-> stats.test_step_status,
     date_distribution |-> stats.date_distribution]

\* The JSON object generate_individual_command_file writes.
generate_individual_command_file(command, stats) ==
    [command |-> command,
     app_package |-> most_common_package(stats.app_packages),
     app_package_distribution |-> stats.app_packages,
     body |-> ReportBody(stats)]

\* The JSON object generate_command_package_file writes.
generate_command_package_file(command, app_package, stats) ==
    [command |-> command,
     app_package |-> app_package,
     body |-> ReportBody(stats)]

\* The files generate_all_files writes, by key.
generate_all_files(stats_by_command, stats_by_key) ==
    [individual |->
        [command \in DOMAIN stats_by_command |->
            generate_individual_command_file(command, stats_by_command[command])],
     command_package |->
        [key \in DOMAIN stats_by_key |->
            generate_command_package_file(key[1], key[2], stats_by_key[key])]]

generate_summary_report(stats_by_command, stats_by_key, total) ==
    [total_steps_processed |-> total,
     unique_commands_found |-> Cardinality(DOMAIN stats_by_command),
     command_package_combinations |-> Cardinality(DOMAIN stats_by_key),
     individual_command_files_generated |-> Cardinality(DOMAIN stats_by_command),
     command_package_files_generated |-> Cardinality(DOMAIN stats_by_key)]

(***************************************************************************)
(* bulk_analyzer.py: the names of the report files.  A text is spelled as  *)
(* the sequence of its word runs, blanks, hyphens and punctuation marks;   *)
(* the texts of the model are shorter than the 50 characters at which      *)
(* _sanitize_filename cuts.                                                *)
(***************************************************************************)
Spelling(text) ==
    CASE text = "Tap Submit" -> <<"Tap", " ", "Submit">>
      [] text = "Tap Submit." -> <<"Tap", " ", "Submit", ".">>
      [] text = "com.shop" -> <<"com", ".", "shop">>
      [] text = "com.bank" -> <<"com", ".", "bank">>
      [] OTHER -> <<text>>

RECURSIVE CollapseSeparators(_)
\* re.sub(r'[-\s]+', '_', ...): each run of separators (a blank or a
\* hyphen) becomes one '_'.
CollapseSeparators(tokens) ==
    IF tokens = <<>> THEN <<>>
    ELSE IF Head(tokens) \notin {" ", "-"}
    THEN <<Head(tokens)>> \o CollapseSeparators(Tail(tokens))
    ELSE IF Len(tokens) > 1 /\ tokens[2] \in {" ", "-"}
    THEN CollapseSeparators(Tail(tokens))
    ELSE <<"_">> \o CollapseSeparators(Tail(tokens))

RECURSIVE StripUnderscores(_)
\* safe_name.strip('_')
StripUnderscores(tokens) ==
    IF tokens = <<>> THEN <<>>
    ELSE IF Head(tokens) = "_" THEN StripUnderscores(Tail(tokens))
    ELSE IF tokens[Len(tokens)] = "_"
    THEN StripUnderscores(SubSeq(tokens, 1, Len(tokens) - 1))
    ELSE tokens

\* re.sub(r'[^\w\s-]', '', text) removes the punctuation the model spells.
_sanitize_filename(text) ==
    LET NotPunctuation(token) == token \notin {".", "!", "'"}
    IN  StripUnderscores(
            CollapseSeparators(SelectSeq(Spelling(text), NotPunctuation)))

\* output_dir after generate_all_files: open(filepath, 'w') replaces a file
\* of the same name.  The names are
\* f"command_stats_{safe_command_name}_{timestamp}.json" and
\* f"command_package_stats_{safe_package_name}_{safe_command_name}_{timestamp}.json";
\* the timestamp datetime.now().strftime("%Y%m%d_%H%M%S") has a resolution
\* of one second, a second is identified by the reports written during
\* it, and the reports of a run are written either all within one second
\* or each in a second of its own.
WrittenFiles(stats_by_command, stats_by_key, same_second) ==
    LET commands == DOMAIN stats_by_command
        pairs == DOMAIN stats_by_key
        Timestamp(keys, key) == IF same_second THEN keys ELSE {key}
        IndividualFilename(c) ==
            <<"command_stats", _sanitize_filename(c), Timestamp(commands, c)>>
        CommandPackageFilename(k) ==
            <<"command_package_stats", _sanitize_filename(k[2]),
              _sanitize_filename(k[1]), Timestamp(pairs, k)>>
    IN  [individual |->
            [name \in {IndividualFilename(c) : c \in commands} |->
                {c \in commands : IndividualFilename(c) = name}],
         command_package |->
            [name \in {CommandPackageFilename(k) : k \in pairs} |->
                {k \in pairs : CommandPackageFilename(k) = name}]]

(***************************************************************************)
(* The records the scan can yield: two commands, the first one run in two  *)
(* packages, and five                                                      *)
(* kinds of record (a hit with a latency, a hit without component with a   *)
(* latency and low-similarity candidates, a failed miss, a record with no  *)
(* cache_read_status and no created_at, and a status-0 record whose        *)
(* candidate list the classifier cannot read).                             *)
(***************************************************************************)
Commands == {"Tap Submit", "Tap Submit."}

Packages == {"com.shop", "com.bank"}

Kinds == {"hit", "hit_without_component", "miss", "no_status", "unreadable"}

BulkItem(command, package, kind) ==
    [command |-> AttrS(command),
     app_package |-> AttrS(package),
     created_at |->
        CASE kind \in {"hit", "hit_without_component"} -> AttrS(<<"2025-10-07", "T16:37:17">>)
          [] kind = "no_status" -> AbsentStamp
          [] OTHER -> AttrS(<<"2025-10-08", "T09:00:00">>),
     cache_read_latency |->
        CASE kind = "hit" -> AttrN("0.2")
          [] kind = "hit_without_component" -> AttrN("0.3")
          [] OTHER -> Absent,
     step_classification |->
        IF kind = "hit_without_component" THEN AttrS("TEXT") ELSE AttrS("TAP"),
     llm_output |-> AttrS(<<"tap at 10,20">>),
     is_blocker |-> Absent,
     ocr_output |-> Absent,
     ensemble_used |-> Absent,
     test_step_status |-> IF kind = "miss" THEN AttrS("FAILED") ELSE AttrS("SUCCESS"),
     cache_read_status |->
        CASE kind = "hit" -> AttrN("1")
          [] kind \in {"hit_without_component", "unreadable"} -> AttrN("0")
          [] kind = "miss" -> AttrN("-1")
          [] OTHER -> Absent,
     cache_query_results |->
        CASE kind = "hit_without_component" ->
                AttrS(JsonText(JList(<<Doc(Num(50), "false", NoReport),
                                       Doc(Num(60), "false", NoReport)>>)))
          [] kind = "unreadable" -> AttrS(JsonText(JList(<<NotADoc>>)))
          [] OTHER -> AbsentResults]

\* The (command, app_package) pairs that occur in the table.
Pairs ==
    {<<c, p>> \in Commands \X Packages : c = "Tap Submit" \/ p = "com.shop"}

BulkItems == {BulkItem(key[1], key[2], k) : key \in Pairs, k \in Kinds}

\* The value of `step` before the first record is pulled.
NoItem ==
    [command |-> Absent, app_package |-> Absent, created_at |-> AbsentStamp,
     cache_read_latency |-> Absent, step_classification |-> Absent,
     llm_output |-> AbsentText, is_blocker |-> Absent, ocr_output |-> Absent,
     ensemble_used |-> Absent, test_step_status |-> Absent,
     cache_read_status |-> Absent, cache_query_results |-> AbsentResults]

(***************************************************************************)
(* bulk_analyzer.py: run_bulk_analysis, the scan loop.  pc is "scanning"   *)
(* inside the loop, "done" once the summary is returned, and               *)
(* "raised_by_source" or "raised_by_update" once the except clause has     *)
(* re-raised the exception of the record source or of an update call.      *)
(***************************************************************************)
\* The argument combinations of a run (bulk_cli never clears both flags).
RunArgs ==
    {[generate_individual |-> TRUE, generate_command_package |-> TRUE,
      start_date |-> PyNone, end_date |-> PyNone],
     [generate_individual |-> TRUE, generate_command_package |-> FALSE,
      start_date |-> PyNone, end_date |-> PyNone],
     [generate_individual |-> FALSE, generate_command_package |-> TRUE,
      start_date |-> PyNone, end_date |-> PyNone],
     [generate_individual |-> TRUE, generate_command_package |-> TRUE,
      start_date |-> "2025-10-08", end_date |-> "2025-10-08"]}

Init ==
    /\ step = NoItem
    /\ checks = NoChecks
    /\ miss_reason = NotRun
    /\ categories = NoCategories
    /\ pc = "scanning"
    /\ run_args \in RunArgs
    /\ reports = NoReports
    /\ scan = NoScan
    /\ InitAggregator

\* One iteration of `for item in scan_test_steps_with_pagination()`.  An
\* exception of update_command_stats skips update_command_package_stats
\* and leaves the function through the except clause.
ProcessRecord(item) ==
    LET first_raises ==
            /\ run_args.generate_individual
            /\ update_command_stats_raises(command_stats, item)
        second_raises ==
            /\ ~first_raises
            /\ run_args.generate_command_package
            /\ update_command_package_stats_raises(command_package_stats, item)
    IN  /\ pc = "scanning"
        /\ total_steps_processed < MaxRecords
        /\ step' = item
        /\ total_steps_processed' = total_steps_processed + 1
        /\ miss_reason' = MissCategory(item)
        /\ command_stats' =
              IF run_args.generate_individual
              THEN update_command_stats(command_stats, item)
              ELSE command_stats
        /\ command_package_stats' =
              IF run_args.generate_command_package /\ ~first_raises
              THEN update_command_package_stats(command_package_stats, item)
              ELSE command_package_stats
        /\ pc' = IF first_raises \/ second_raises
                 THEN "raised_by_update" ELSE "scanning"
        /\ UNCHANGED <<checks, categories, run_args, reports, scan>>

Finalize_InsideTheLoop ==
    /\ pc = "scanning"
    /\ LET documents == generate_all_files(command_stats, command_package_stats)
           summary == generate_summary_report(command_stats, command_package_stats,
                                              total_steps_processed)
       IN  \E same_second \in BOOLEAN :
              reports' =
                 [written |-> TRUE,
                  individual |-> documents.individual,
                  command_package |-> documents.command_package,
                  files |-> WrittenFiles(command_stats, command_package_stats,
                                         same_second),
                  summary |-> summary]
    /\ pc' = "scanning"
    /\ UNCHANGED <<step, checks, miss_reason, categories, command_stats,
                   command_package_stats, total_steps_processed, run_args, scan>>

\* The source is exhausted: generate_all_files, generate_summary_report,
\* return summary.
Finalize ==
    /\ pc = "scanning"
    /\ LET documents == generate_all_files(command_stats, command_package_stats)
           summary == generate_summary_report(command_stats, command_package_stats,
                                              total_steps_processed)
       IN  \E same_second \in BOOLEAN :
              reports' =
                 [written |-> TRUE,
                  individual |-> documents.individual,
                  command_package |-> documents.command_package,
                  files |-> WrittenFiles(command_stats, command_package_stats,
                                         same_second),
                  summary |-> summary]
    /\ pc' = "done"
    /\ UNCHANGED <<step, checks, miss_reason, categories, command_stats,
                   command_package_stats, total_steps_processed, run_args, scan>>

\* client.scan raises inside scan_test_steps_with_pagination: the scanner
\* re-raises, and so does the except clause of run_bulk_analysis.
SourceRaises ==
    /\ pc = "scanning"
    /\ pc' = "raised_by_source"
    /\ UNCHANGED <<step, checks, miss_reason, categories, command_stats,
                   command_package_stats, total_steps_processed, run_args,
                   reports, scan>>

Next ==
    \/ \E item \in BulkItems : ProcessRecord(item)
    \/ Finalize
    \/ SourceRaises

Spec == Init /\ [][Next]_vars

(***************************************************************************)
(* The scan loop over a table that also holds items whose app_package is   *)
(* stored as a list (DynamoDB enforces no attribute types; the scan filter *)
(* fixes only step_classification).                                        *)
(***************************************************************************)
ListPackageItems ==
    {[BulkItem(key[1], key[2], k) EXCEPT !.app_package = AttrL(key[2])] :
        key \in Pairs, k \in {"hit", "miss"}}

NextAnyType ==
    \/ \E item \in BulkItems \cup ListPackageItems : ProcessRecord(item)
    \/ Finalize
    \/ SourceRaises

SpecAnyType == Init /\ [][NextAnyType]_vars

(***************************************************************************)
(* The report generators applied to a bucket of any counts: the stats      *)
(* argument of generate_individual_command_file and                        *)
(* generate_command_package_file, with count from 0 (which no update call  *)
(* produces, but which both generators guard against) to MaxCount.         *)
(***************************************************************************)
StatsArgument(count, hits, without_component, failed, latencies) ==
    [count |-> count,
     cache_hits |-> hits,
     cache_misses |-> count - hits,
     cache_hit_without_component |-> without_component,
     date_distribution |-> IF count = 0 THEN <<>> ELSE ("2025-10-08" :> count),
     step_classifications |-> IF count = 0 THEN <<>> ELSE ("TAP" :> count),
     test_step_status |-> IF count = 0 THEN <<>> ELSE ("SUCCESS" :> count),
     cache_latencies |-> latencies,
     cache_miss_breakdown |->
         [_init_breakdown_stats EXCEPT
             !["failed_step"] = failed,
             ![UNCLASSIFIED] = count - hits - failed]]

StatsArguments ==
    {StatsArgument(count, hits, without_component, failed, latencies) :
        count \in 0 .. MaxCount, hits \in 0 .. MaxCount,
        without_component \in 0 .. MaxCount, failed \in 0 .. MaxCount,
        latencies \in {<<>>, <<200, 300>>}}

InitFormat ==
    /\ step = NoItem
    /\ checks = NoChecks
    /\ miss_reason = NotRun
    /\ categories = NoCategories
    /\ run_args = [generate_individual |-> TRUE, generate_command_package |-> TRUE,
                   start_date |-> PyNone, end_date |-> PyNone]
    /\ reports = NoReports
    /\ scan = NoScan
    /\ pc = "scanning"
    /\ \E stats \in StatsArguments :
          /\ stats.cache_hits <= stats.count
          /\ stats.cache_hit_without_component \in {0, stats.cache_misses}
          /\ stats.cache_miss_breakdown["failed_step"] <= stats.cache_misses
          /\ stats.count = 0 => stats.cache_latencies = <<>>
          /\ total_steps_processed = stats.count
          /\ command_package_stats = (<<"Tap Submit", "com.shop">> :> stats)
          /\ command_stats =
                ("Tap Submit" :>
                    [count |-> stats.count,
                     app_packages |->
                         IF stats.count = 0 THEN <<>>
                         ELSE <<[package |-> "com.shop", n |-> stats.count]>>,
                     cache_hits |-> stats.cache_hits,
                     cache_misses |-> stats.cache_misses,
                     cache_hit_without_component |-> stats.cache_hit_without_component,
                     date_distribution |-> stats.date_distribution,
                     step_classifications |-> stats.step_classifications,
                     test_step_status |-> stats.test_step_status,
                     cache_latencies |-> stats.cache_latencies,
                     cache_miss_breakdown |-> stats.cache_miss_breakdown])

NextFormat == Finalize

SpecFormat == InitFormat /\ [][NextFormat]_vars

(***************************************************************************)
(* dynamodb_scanner.py: scan_test_steps_with_pagination, the pagination    *)
(* loop.  The table answers a scan request with one page: the page after   *)
(* the one named by ExclusiveStartKey (the first page when there is none). *)
(* A page holds the items that passed the filter, possibly none, and       *)
(* every page but the last carries a LastEvaluatedKey.  The key of page i  *)
(* is i, NoKey stands for an absent key and item j of page i is <<i, j>>.  *)
(***************************************************************************)
MaxPages == 3

MaxPageItems == 2

NoKey == 0

\* response.get('Items', []) of page i.
Items(table, i) == [j \in 1 .. table[i] |-> <<i, j>>]

\* response['LastEvaluatedKey'] of page i (NoKey when the response has none).
LastEvaluatedKey(table, i) == IF i < Len(table) THEN i ELSE NoKey

HasMorePages_OnlyAfterItems(table, i) ==
    LastEvaluatedKey(table, i) # NoKey /\ table[i] > 0

\* `'LastEvaluatedKey' not in response` is false.
HasMorePages(table, i) == LastEvaluatedKey(table, i) # NoKey

InitPages ==
    /\ step = NoItem
    /\ checks = NoChecks
    /\ miss_reason = NotRun
    /\ categories = NoCategories
    /\ InitAggregator
    /\ run_args = NoArgs
    /\ reports = NoReports
    /\ pc = "page_request"
    \* A table is the number of items on each of its pages.
    /\ \E table \in UNION {[1 .. n -> 0 .. MaxPageItems] : n \in 1 .. MaxPages} :
          scan = [table |-> table, ExclusiveStartKey |-> NoKey, response |-> 0,
                  pos |-> 0, yielded |-> <<>>, requests |-> <<>>]

\* response = client.scan(**scan_kwargs)
ScanPage ==
    /\ pc = "page_request"
    /\ scan' = [scan EXCEPT !.response = scan.ExclusiveStartKey + 1,
                            !.pos = 1,
                            !.requests = Append(@, scan.ExclusiveStartKey)]
    /\ pc' = "page_yield"
    /\ UNCHANGED <<step, checks, miss_reason, categories, command_stats,
                   command_package_stats, total_steps_processed, run_args,
                   reports>>

\* for item in items: yield item
YieldItem ==
    /\ pc = "page_yield"
    /\ scan.pos <= Len(Items(scan.table, scan.response))
    /\ scan' = [scan EXCEPT
                   !.yielded = Append(@, Items(scan.table, scan.response)[scan.pos]),
                   !.pos = @ + 1]
    /\ UNCHANGED <<step, checks, miss_reason, categories, command_stats,
                   command_package_stats, total_steps_processed, run_args,
                   reports, pc>>

\* The items of the page are exhausted: break, or set ExclusiveStartKey
\* and loop.
EndOfPage ==
    /\ pc = "page_yield"
    /\ scan.pos > Len(Items(scan.table, scan.response))
    /\ IF HasMorePages(scan.table, scan.response)
       THEN /\ scan' = [scan EXCEPT !.ExclusiveStartKey =
                                       LastEvaluatedKey(scan.table, scan.response)]
            /\ pc' = "page_request"
       ELSE /\ scan' = scan
            /\ pc' = "scan_complete"
    /\ UNCHANGED <<step, checks, miss_reason, categories, command_stats,
                   command_package_stats, total_steps_processed, run_args,
                   reports>>

NextPages == ScanPage \/ YieldItem \/ EndOfPage

\* The consumer keeps pulling from the generator and every scan request
\* returns.
SpecPages == InitPages /\ [][NextPages]_vars /\ WF_vars(NextPages)

(***************************************************************************)
(* command_stats/scanner.py: scan_command_steps_with_pagination, the       *)
(* filter DynamoDB applies to one stored record.  A created_at string      *)
(* "2025-10-DDTHH:MM:00+0000" is the sequence <<DD, HH, MM>> of its        *)
(* zero-padded fields and a date argument "2025-10-DD" is <<DD>>, so the   *)
(* order of the strings is the lexicographic order of the sequences, a     *)
(* proper prefix sorting first.  <<>> as a date argument is None.          *)
(***************************************************************************)
RECURSIVE LexLeq(_, _)
\* a <= b as DynamoDB compares two S values.
LexLeq(a, b) ==
    IF a = <<>> THEN TRUE
    ELSE IF b = <<>> THEN FALSE
    ELSE IF Head(a) # Head(b) THEN Head(a) < Head(b)
    ELSE LexLeq(Tail(a), Tail(b))

\* created_at BETWEEN :start_date AND :end_date
Between(created_at, start_date, end_date) ==
    LexLeq(start_date, created_at) /\ LexLeq(created_at, end_date)

\* The FilterExpression: the date condition is added only when both dates
\* are given.
FilterExpression(record, start_date, end_date) ==
    /\ record.matches
    /\ (start_date # <<>> /\ end_date # <<>>) =>
          Between(record.created_at, start_date, end_date)

\* Days of October 2025 on which records were stored, and times of day.
ScanDays == 6 .. 10

ScanTimes == {<<0, 0>>, <<10, 0>>, <<18, 29>>, <<18, 30>>, <<23, 59>>}

\* The start_date / end_date arguments of a call.
ScanDateArgs ==
    {<<<<>>, <<>>>>} \cup
    {<<<<a>>, <<b>>>> : a \in 7 .. 9, b \in 7 .. 9}

InitScan ==
    /\ step = NoItem
    /\ checks = NoChecks
    /\ miss_reason = NotRun
    /\ categories = NoCategories
    /\ InitAggregator
    /\ run_args = NoArgs
    /\ reports = NoReports
    /\ pc = "scan_pending"
    /\ \E d \in ScanDays, hm \in ScanTimes, dates \in ScanDateArgs, m \in BOOLEAN :
          scan = [matches |-> m, created_at |-> <<d>> \o hm,
                  start_date |-> dates[1], end_date |-> dates[2],
                  yielded |-> PyNone]

ScanRecord ==
    /\ pc = "scan_pending"
    /\ pc' = "scan_done"
    /\ scan' = [scan EXCEPT !.yielded =
                   IF FilterExpression(scan, scan.start_date, scan.end_date)
                   THEN "yielded" ELSE "filtered"]
    /\ UNCHANGED <<step, checks, miss_reason, categories, command_stats,
                   command_package_stats, total_steps_processed, run_args,
                   reports>>

NextScan == ScanRecord

SpecScan == InitScan /\ [][NextScan]_vars

(***************************************************************************)
(* C9: after any sequence of update calls every bucket of both key-spaces  *)
(* has cache_hits + cache_misses = count.                                  *)
(***************************************************************************)
C9_HitsPlusMissesIsCount ==
    /\ \A c \in DOMAIN command_stats :
          command_stats[c].cache_hits + command_stats[c].cache_misses
              = command_stats[c].count
    /\ \A k \in DOMAIN command_package_stats :
          command_package_stats[k].cache_hits + command_package_stats[k].cache_misses
              = command_package_stats[k].count

RECURSIVE SumOver(_, _)
SumOver(f, keys) ==
    IF keys = {} THEN 0
    ELSE LET k == CHOOSE k \in keys : TRUE
         IN  f[k] + SumOver(f, keys \ {k})

(***************************************************************************)
(* C10: in every bucket the twelve cache_miss_breakdown counters sum to    *)
(* cache_misses, for a bucket just created and after later records.        *)
(***************************************************************************)
C10_BreakdownSumsToMisses ==
    /\ \A c \in DOMAIN command_stats :
          /\ DOMAIN command_stats[c].cache_miss_breakdown = Categories
          /\ SumOver(command_stats[c].cache_miss_breakdown, Categories)
                = command_stats[c].cache_misses
    /\ \A k \in DOMAIN command_package_stats :
          /\ DOMAIN command_package_stats[k].cache_miss_breakdown = Categories
          /\ SumOver(command_package_stats[k].cache_miss_breakdown, Categories)
                = command_package_stats[k].cache_misses

\* A bucket created by an unreadable miss (tallied as unclassified) that
\* later took a classified miss.
C10_Witness ==
    \E c \in DOMAIN command_stats :
        /\ command_stats[c].count >= 2
        /\ command_stats[c].cache_miss_breakdown[UNCLASSIFIED] = 1
        /\ command_stats[c].cache_miss_breakdown[FAILED_STEP] = 1
        /\ command_stats[c].cache_misses = 2

(***************************************************************************)
(* What one record added to the counter f of the bucket under key (a       *)
(* bucket that does not exist yet counts as all zeros).                    *)
(***************************************************************************)
Counter(stats, key, f) == IF key \in DOMAIN stats THEN stats[key][f] ELSE 0

Added(before, after, key, f) == Counter(after, key, f) - Counter(before, key, f)

\* [cache_hits, cache_misses, cache_hit_without_component] added under key.
AddedCounters(before, after, key) ==
    << Added(before, after, key, "cache_hits"),
       Added(before, after, key, "cache_misses"),
       Added(before, after, key, "cache_hit_without_component") >>

\* What the status of a record is to add to those three counters.
StatusCounters(item) ==
    CASE item.cache_read_status = AttrN("1") -> <<1, 0, 0>>
      [] item.cache_read_status = AttrN("0") -> <<0, 1, 1>>
      [] OTHER -> <<0, 1, 0>>

CommandOf(item) == item.command.v

PairOf(item) == <<item.command.v, item.app_package.v>>

(***************************************************************************)
(* C11: a record with cache_read_status 1 adds one to cache_hits only,     *)
(* with 0 one to cache_misses and to cache_hit_without_component, with -1  *)
(* or no status one to cache_misses only; in both key-spaces, for the      *)
(* record that creates the bucket and for every later one.                 *)
(***************************************************************************)
C11_StatusDecidesCounters ==
    [][(pc = "scanning" /\ total_steps_processed' = total_steps_processed + 1) =>
          /\ run_args.generate_individual =>
                AddedCounters(command_stats, command_stats', CommandOf(step'))
                    = StatusCounters(step')
          /\ run_args.generate_command_package =>
                AddedCounters(command_package_stats, command_package_stats', PairOf(step'))
                    = StatusCounters(step')]_vars

\* A bucket of each key-space that was created by a status-0 record and
\* then took a hit and a status -1 record.
C11_Witness ==
    /\ total_steps_processed = 3
    /\ step.cache_read_status = AttrN("-1")
    /\ CommandOf(step) \in DOMAIN command_stats
    /\ PairOf(step) \in DOMAIN command_package_stats
    /\ LET b == command_stats[CommandOf(step)]
           q == command_package_stats[PairOf(step)]
       IN  /\ b.count = 3 /\ b.cache_hits = 1 /\ b.cache_misses = 2
           /\ b.cache_hit_without_component = 1
           /\ b.cache_latencies = <<300, 200>>
           /\ q.count = 3 /\ q.cache_hits = 1 /\ q.cache_misses = 2
           /\ q.cache_hit_without_component = 1
           /\ q.cache_latencies = <<300, 200>>

(***************************************************************************)
(* C12: when the record source raises after yielding some records, the     *)
(* per-key reports and the summary are still produced from the buckets     *)
(* accumulated so far before the failure reaches the caller.               *)
(***************************************************************************)
C12_SourceFailureStillFinalizes ==
    (pc = "raised_by_source" /\ total_steps_processed > 0) =>
        /\ reports.written
        /\ DOMAIN reports.individual = DOMAIN command_stats
        /\ DOMAIN reports.command_package = DOMAIN command_package_stats
        /\ reports.summary.total_steps_processed = total_steps_processed

(***************************************************************************)
(* C13: when the classifier raises on a miss record (cache_read_status 0,  *)
(* -1 or absent), the record still adds one to count and to cache_misses   *)
(* of its bucket, it is tallied under unclassified, and the scan loop      *)
(* goes on to the next record.                                             *)
(***************************************************************************)
ClassifierRaisesOn(item) ==
    /\ item.cache_read_status \in {Absent, AttrN("0"), AttrN("-1")}
    /\ analyze_cache_miss_reason(item) = Raise

AddedUnclassified(before, after, key) ==
    (IF key \in DOMAIN after THEN after[key].cache_miss_breakdown[UNCLASSIFIED] ELSE 0)
    - (IF key \in DOMAIN before THEN before[key].cache_miss_breakdown[UNCLASSIFIED] ELSE 0)

C13_ClassifierFailureIsUnclassified ==
    [][(pc = "scanning" /\ total_steps_processed' = total_steps_processed + 1
        /\ ClassifierRaisesOn(step')) =>
          /\ pc' = "scanning"
          /\ run_args.generate_individual =>
                /\ Added(command_stats, command_stats', CommandOf(step'), "count") = 1
                /\ Added(command_stats, command_stats', CommandOf(step'), "cache_misses") = 1
                /\ AddedUnclassified(command_stats, command_stats', CommandOf(step')) = 1
          /\ run_args.generate_command_package =>
                /\ Added(command_package_stats, command_package_stats',
                         PairOf(step'), "count") = 1
                /\ Added(command_package_stats, command_package_stats',
                         PairOf(step'), "cache_misses") = 1
                /\ AddedUnclassified(command_package_stats, command_package_stats',
                                     PairOf(step')) = 1]_vars

\* The classifier raised on the first and on the second record of a key,
\* and a third record was processed after them.
C13_Witness ==
    /\ pc = "scanning"
    /\ total_steps_processed = 3
    /\ ~ClassifierRaisesOn(step)
    /\ CommandOf(step) \in DOMAIN command_stats
    /\ PairOf(step) \in DOMAIN command_package_stats
    /\ command_stats[CommandOf(step)].cache_miss_breakdown[UNCLASSIFIED] = 2
    /\ command_stats[CommandOf(step)].count = 3
    /\ command_package_stats[PairOf(step)].cache_miss_breakdown[UNCLASSIFIED] = 2

(***************************************************************************)
(* C14: an update call that raises leaves its bucket, and the set of       *)
(* buckets, exactly as they were before the call; no bucket ever has its   *)
(* count incremented without its other fields updated for that record.     *)
(***************************************************************************)
C14_UpdateIsAtomic ==
    [][pc' = "raised_by_update" =>
          /\ command_stats' = command_stats
          /\ command_package_stats' = command_package_stats]_vars

\* The record lies outside the inclusive [start_date, end_date] of the run.
OutsideRequestedRange(item, args) ==
    /\ args.start_date # PyNone
    /\ args.end_date # PyNone
    /\ item.created_at.t = "S"
    /\ \/ DateRank(item.created_at.v[1]) < DateRank(args.start_date)
       \/ DateRank(item.created_at.v[1]) > DateRank(args.end_date)

(***************************************************************************)
(* C16: in a bulk run given start_date and end_date, a record outside the  *)
(* inclusive range changes no bucket and is not counted in                 *)
(* total_steps_processed.                                                  *)
(***************************************************************************)
C16_OutsideRangeNotCounted ==
    [][OutsideRequestedRange(step', run_args) =>
          /\ total_steps_processed' = total_steps_processed
          /\ command_stats' = command_stats
          /\ command_package_stats' = command_package_stats]_vars

\* IST is UTC + 5:30.
IST_OFFSET_MINUTES == 330

\* The calendar day, in IST, of a created_at stored in UTC.
IstDay(created_at) ==
    (created_at[1] * 1440 + created_at[2] * 60 + created_at[3]
        + IST_OFFSET_MINUTES) \div 1440

(***************************************************************************)
(* C17: called with calendar dates, scan_command_steps_with_pagination     *)
(* yields a matching record exactly when its created_at lies between       *)
(* 00:00:00 IST of the start date and 23:59:59 IST of the end date.        *)
(***************************************************************************)
C17_ScanYieldsIstRange ==
    (pc = "scan_done" /\ scan.matches /\ scan.start_date # <<>>
        /\ scan.end_date # <<>>) =>
       (scan.yielded = "yielded" <=>
           /\ scan.start_date[1] <= IstDay(scan.created_at)
           /\ IstDay(scan.created_at) <= scan.end_date[1])

\* Every value of the record that keys a collection of the bucket has been
\* seen by the bucket before.
ValuesSeen(bucket, item) ==
    /\ \E i \in 1 .. Len(bucket.app_packages) :
          bucket.app_packages[i].package = item.app_package.v
    /\ DateKey(item) \in DOMAIN bucket.date_distribution
    /\ GetString(item, "step_classification", "UNKNOWN")
          \in DOMAIN bucket.step_classifications
    /\ GetString(item, "test_step_status", "UNKNOWN")
          \in DOMAIN bucket.test_step_status

\* The number of elements of each collection of a command bucket.
CollectionSizes(bucket) ==
    << Len(bucket.app_packages),
       Cardinality(DOMAIN bucket.date_distribution),
       Cardinality(DOMAIN bucket.step_classifications),
       Cardinality(DOMAIN bucket.test_step_status),
       Cardinality(DOMAIN bucket.cache_miss_breakdown),
       Len(bucket.cache_latencies) >>

(***************************************************************************)
(* C18: a further record for an existing command whose package, date,      *)
(* classification and status values the bucket has already seen adds no    *)
(* element to any collection of the bucket; it changes counters only.      *)
(***************************************************************************)
C18_NothingRetainedPerRecord ==
    [][(/\ pc = "scanning"
        /\ total_steps_processed' = total_steps_processed + 1
        /\ run_args.generate_individual
        /\ CommandOf(step') \in DOMAIN command_stats
        /\ ValuesSeen(command_stats[CommandOf(step')], step')) =>
          CollectionSizes(command_stats'[CommandOf(step')])
             = CollectionSizes(command_stats[CommandOf(step')])]_vars

\* The text "0.00%".
ZeroPercent == [whole |-> 0, hundredths |-> 0, suffix |-> "%"]

\* p is 100 * n / d to the nearest hundredth, followed by '%'.
NearestHundredth(p, n, d) ==
    LET v == 100 * p.whole + p.hundredths
        err == v * d - 10000 * n
    IN  /\ p.suffix = "%"
        /\ p.hundredths \in 0 .. 99
        /\ 2 * err <= d
        /\ -2 * err <= d

\* The percentages and the average latency of one report written from stats.
PercentagesRight(body, stats) ==
    /\ \A f \in {"cache_hit", "cache_miss", "cache_hit_without_component"} :
          IF stats.count = 0
          THEN body[f].percentage = ZeroPercent
          ELSE NearestHundredth(body[f].percentage, stats[
                  CASE f = "cache_hit" -> "cache_hits"
                    [] f = "cache_miss" -> "cache_misses"
                    [] OTHER -> "cache_hit_without_component"], stats.count)
    /\ \A category \in DOMAIN stats.cache_miss_breakdown :
          IF stats.cache_misses = 0
          THEN body.cache_miss.breakdown[category].percentage = ZeroPercent
          ELSE NearestHundredth(body.cache_miss.breakdown[category].percentage,
                                stats.cache_miss_breakdown[category],
                                stats.cache_misses)
    /\ stats.cache_latencies = <<>> => body.cache_hit.average_latency.sum = 0

(***************************************************************************)
(* C19: every percentage of a report is 100 * n / d rounded to two         *)
(* decimals with a trailing '%'; a breakdown percentage is '0.00%' when    *)
(* cache_misses is 0, the hit and miss percentages are zero when count is  *)
(* 0, and average_latency is 0.0 when no latency was recorded; no          *)
(* division by zero occurs.                                                *)
(***************************************************************************)
C19_PercentagesRounded ==
    pc = "done" =>
       /\ \A command \in DOMAIN reports.individual :
             PercentagesRight(reports.individual[command].body,
                              command_stats[command])
       /\ \A key \in DOMAIN reports.command_package :
             PercentagesRight(reports.command_package[key].body,
                              command_package_stats[key])

\* A count of 3 with 2 misses is reported as '66.67%'.
C19_Witness ==
    /\ pc = "done"
    /\ "Tap Submit" \in DOMAIN reports.individual
    /\ reports.individual["Tap Submit"].body.total_step_runs = 3
    /\ reports.individual["Tap Submit"].body.cache_miss.count = 2
    /\ reports.individual["Tap Submit"].body.cache_miss.percentage
          = [whole |-> 66, hundredths |-> 67, suffix |-> "%"]

\* The package at position i of packages (in first-seen order) has the
\* largest count, and no earlier package has the same count.
FirstOfLargest(packages, i) ==
    \A j \in 1 .. Len(packages) :
        /\ packages[j].n <= packages[i].n
        /\ packages[j].n = packages[i].n => i <= j

(***************************************************************************)
(* C20: the app_package of a command-level report is a package with the    *)
(* largest count for that command; among packages with equal counts it is  *)
(* the one seen first.                                                     *)
(***************************************************************************)
C20_MostCommonPackageFirstSeen ==
    pc = "done" =>
       \A command \in DOMAIN reports.individual :
          \E i \in 1 .. Len(command_stats[command].app_packages) :
             /\ command_stats[command].app_packages[i].package
                   = reports.individual[command].app_package
             /\ FirstOfLargest(command_stats[command].app_packages, i)

\* Two packages with equal counts: the report names the first one seen.
C20_Witness ==
    /\ pc = "done"
    /\ \E command \in DOMAIN reports.individual :
          /\ Len(command_stats[command].app_packages) = 2
          /\ command_stats[command].app_packages[1].n
                = command_stats[command].app_packages[2].n
          /\ reports.individual[command].app_package
                = command_stats[command].app_packages[1].package

\* The step pulled one record and both update calls returned.
ProcessedOne ==
    /\ pc = "scanning"
    /\ pc' = "scanning"
    /\ total_steps_processed' = total_steps_processed + 1

\* Between before and after, the count of the bucket under key grew by one
\* (a bucket that did not exist was created with count 1) and every other
\* bucket is as it was.
OnlyBucketGrew(before, after, key) ==
    /\ DOMAIN after = DOMAIN before \cup {key}
    /\ after[key].count = Counter(before, key, "count") + 1
    /\ \A other \in DOMAIN before \ {key} : after[other] = before[other]

TouchesItsTwoBuckets ==
    /\ OnlyBucketGrew(command_stats, command_stats', CommandOf(step'))
    /\ OnlyBucketGrew(command_package_stats, command_package_stats', PairOf(step'))

(***************************************************************************)
(* C22 as stated: processing one record with command c and package p       *)
(* changes exactly the command bucket c and the pair bucket (c, p), each   *)
(* count growing by one, and leaves every other bucket unchanged.          *)
(***************************************************************************)
C22_EveryRecordTouchesTwoBuckets ==
    [][ProcessedOne => TouchesItsTwoBuckets]_vars

(***************************************************************************)
(* C22 amended: in a run with both generate_individual and                 *)
(* generate_command_package set, processing one record with command c and  *)
(* package p changes exactly the command bucket c and the pair bucket      *)
(* (c, p), each count growing by one; with one flag cleared only the       *)
(* bucket of the enabled key-space changes.                                *)
(***************************************************************************)
C22_RecordTouchesEnabledBuckets ==
    [][ProcessedOne =>
          /\ IF run_args.generate_individual
             THEN OnlyBucketGrew(command_stats, command_stats', CommandOf(step'))
             ELSE command_stats' = command_stats
          /\ IF run_args.generate_command_package
             THEN OnlyBucketGrew(command_package_stats, command_package_stats',
                                 PairOf(step'))
             ELSE command_package_stats' = command_package_stats]_vars

\* A third record creates a new pair bucket next to two existing pair
\* buckets and updates the command bucket they share.
C22_Witness ==
    /\ run_args.generate_individual
    /\ run_args.generate_command_package
    /\ total_steps_processed = 3
    /\ Cardinality(DOMAIN command_package_stats) = 3
    /\ Cardinality(DOMAIN command_stats) = 2
    /\ PairOf(step) \in DOMAIN command_package_stats

(***************************************************************************)
(* C23: in a run every bucket is finalized exactly once and only after     *)
(* the record source is exhausted: no report exists while records are      *)
(* still being pulled, a completed run has one report per bucket, and once *)
(* the reports exist no bucket and no report changes any more.             *)
(***************************************************************************)
C23_FinalizedOnceAfterTheScan ==
    /\ [](pc = "scanning" => ~reports.written)
    /\ [](pc = "done" =>
             /\ reports.written
             /\ DOMAIN reports.individual = DOMAIN command_stats
             /\ DOMAIN reports.command_package = DOMAIN command_package_stats)
    /\ [][reports.written =>
             /\ reports' = reports
             /\ command_stats' = command_stats
             /\ command_package_stats' = command_package_stats
             /\ total_steps_processed' = total_steps_processed]_vars

\* A completed run of three records over two commands: both command
\* buckets have their report.
C23_Witness ==
    /\ pc = "done"
    /\ reports.written
    /\ total_steps_processed = 3
    /\ Cardinality(DOMAIN reports.individual) = 2
    /\ reports.summary.total_steps_processed = 3

\* The latencies held by the bucket under key (none if there is no bucket).
LatenciesOf(stats, key) ==
    IF key \in DOMAIN stats THEN stats[key].cache_latencies ELSE <<>>

(***************************************************************************)
(* C24: every value in a bucket's cache_latencies was observed on a hit    *)
(* record (cache_read_status 1): a record that is not a hit adds nothing   *)
(* to cache_latencies, so the latency of a miss never enters the           *)
(* average_latency reported under cache_hit.                               *)
(***************************************************************************)
C24_OnlyHitLatencies ==
    [][(ProcessedOne /\ step'.cache_read_status # AttrN("1")) =>
          /\ LatenciesOf(command_stats', CommandOf(step'))
                = LatenciesOf(command_stats, CommandOf(step'))
          /\ LatenciesOf(command_package_stats', PairOf(step'))
                = LatenciesOf(command_package_stats, PairOf(step'))]_vars

\* The pair buckets of command c.
PairsOf(c) == {key \in DOMAIN command_package_stats : key[1] = c}

\* The sum of the counter f over the pair buckets of command c.
SumOverPairs(c, f) ==
    SumOver([key \in PairsOf(c) |-> command_package_stats[key][f]], PairsOf(c))

\* The same for one breakdown counter.
SumBreakdownOverPairs(c, category) ==
    SumOver([key \in PairsOf(c) |->
                command_package_stats[key].cache_miss_breakdown[category]],
            PairsOf(c))

(***************************************************************************)
(* C27: with both key-spaces enabled, after every processed record each    *)
(* command bucket's count, cache_hits, cache_misses and breakdown counters *)
(* equal the sums of the same fields over the pair buckets of the command, *)
(* app_packages[p] is the count of bucket (c, p), and                      *)
(* total_steps_processed is the sum of count over the command buckets.     *)
(***************************************************************************)
C27_KeySpacesAgree ==
    (/\ run_args.generate_individual
     /\ run_args.generate_command_package
     /\ pc # "raised_by_update") =>
       /\ \A c \in DOMAIN command_stats :
             /\ PairsOf(c) # {}
             /\ \A f \in {"count", "cache_hits", "cache_misses"} :
                   command_stats[c][f] = SumOverPairs(c, f)
             /\ \A category \in Categories :
                   command_stats[c].cache_miss_breakdown[category]
                      = SumBreakdownOverPairs(c, category)
             /\ \A i \in 1 .. Len(command_stats[c].app_packages) :
                   /\ <<c, command_stats[c].app_packages[i].package>> \in PairsOf(c)
                   /\ command_stats[c].app_packages[i].n =
                         command_package_stats[
                            <<c, command_stats[c].app_packages[i].package>>].count
             /\ Len(command_stats[c].app_packages) = Cardinality(PairsOf(c))
       /\ \A key \in DOMAIN command_package_stats : key[1] \in DOMAIN command_stats
       /\ total_steps_processed =
             SumOver([c \in DOMAIN command_stats |-> command_stats[c].count],
                     DOMAIN command_stats)

\* Three records of one command over two packages, one of them a miss.
C27_Witness ==
    /\ run_args.generate_individual
    /\ run_args.generate_command_package
    /\ pc = "scanning"
    /\ total_steps_processed = 3
    /\ \E c \in DOMAIN command_stats :
          /\ command_stats[c].count = 3
          /\ command_stats[c].cache_misses >= 1
          /\ Len(command_stats[c].app_packages) = 2
          /\ command_stats[c].app_packages[1].n = 2

\* The values of the dict d (kept as a function) summed.
SumOfValues(d) == SumOver(d, DOMAIN d)

\* The three distributions of a bucket each sum to its count.
DistributionsSumToCount(bucket) ==
    /\ SumOfValues(bucket.date_distribution) = bucket.count
    /\ SumOfValues(bucket.step_classifications) = bucket.count
    /\ SumOfValues(bucket.test_step_status) = bucket.count

(***************************************************************************)
(* C28: in every bucket, after any sequence of updates, the values of      *)
(* date_distribution, of step_classifications and of test_step_status      *)
(* each sum to count.                                                      *)
(***************************************************************************)
C28_DistributionsSumToCount ==
    /\ \A c \in DOMAIN command_stats : DistributionsSumToCount(command_stats[c])
    /\ \A key \in DOMAIN command_package_stats :
          DistributionsSumToCount(command_package_stats[key])

\* The counters of one bucket: everything but the order of app_packages and
\* the cache_latencies list.
CounterView(bucket) ==
    [count |-> bucket.count,
     cache_hits |-> bucket.cache_hits,
     cache_misses |-> bucket.cache_misses,
     cache_hit_without_component |-> bucket.cache_hit_without_component,
     cache_miss_breakdown |-> bucket.cache_miss_breakdown,
     date_distribution |-> bucket.date_distribution,
     step_classifications |-> bucket.step_classifications,
     test_step_status |-> bucket.test_step_status]

CommandCounters(stats) ==
    [c \in DOMAIN stats |->
        [counters |-> CounterView(stats[c]),
         app_packages |-> {stats[c].app_packages[i] :
                              i \in 1 .. Len(stats[c].app_packages)}]]

PairCounters(stats) == [key \in DOMAIN stats |-> CounterView(stats[key])]

\* The unordered pairs of records.
ItemPairs == {{a, b} : a \in BulkItems, b \in BulkItems}

(***************************************************************************)
(* C29: the counters of the buckets do not depend on the order of the      *)
(* records: from any state of a scan that fills both key-spaces and        *)
(* leaves room for two more records, two further records taken in either   *)
(* order leave the same counters in every bucket of both key-spaces (so    *)
(* any permutation of a record sequence does).                             *)
(***************************************************************************)
C29_OrderDoesNotMatter ==
    (/\ pc = "scanning"
     /\ total_steps_processed + 2 <= MaxRecords
     /\ run_args.generate_individual
     /\ run_args.generate_command_package
     /\ run_args.start_date = PyNone) =>
       \A ab \in ItemPairs :
          LET a == CHOOSE x \in ab : TRUE
              b == CHOOSE y \in ab : ab = {a, y}
          IN
          /\ CommandCounters(
                update_command_stats(update_command_stats(command_stats, a), b))
             = CommandCounters(
                update_command_stats(update_command_stats(command_stats, b), a))
          /\ PairCounters(
                update_command_package_stats(
                   update_command_package_stats(command_package_stats, a), b))
             = PairCounters(
                update_command_package_stats(
                   update_command_package_stats(command_package_stats, b), a))

\* A scan of both key-spaces that has taken one miss of "Tap Submit" and
\* has room for two more records, of this or of another bucket.
C29_Witness ==
    /\ pc = "scanning"
    /\ run_args.generate_individual
    /\ run_args.generate_command_package
    /\ run_args.start_date = PyNone
    /\ total_steps_processed + 2 <= MaxRecords
    /\ "Tap Submit" \in DOMAIN command_stats
    /\ command_stats["Tap Submit"].cache_misses = 1
    /\ command_stats["Tap Submit"].cache_miss_breakdown[FAILED_STEP] = 1

RECURSIVE ItemsUpTo(_, _)
\* The items of pages 1 .. n of the table, in page order.
ItemsUpTo(table, n) ==
    IF n = 0 THEN <<>> ELSE ItemsUpTo(table, n - 1) \o Items(table, n)

(***************************************************************************)
(* C25: scan_test_steps_with_pagination yields every item of every page    *)
(* exactly once, in page order; the first request carries no start key     *)
(* and each later one the LastEvaluatedKey of the previous response; the   *)
(* generator ends right after the first response without a                 *)
(* LastEvaluatedKey, and it does end when the table returns such a page.   *)
(***************************************************************************)
C25_PaginationYieldsAllInOrder ==
    /\ [](pc \in {"page_yield", "scan_complete"} =>
            /\ scan.yielded =
                  ItemsUpTo(scan.table, scan.response - 1)
                     \o SubSeq(Items(scan.table, scan.response), 1, scan.pos - 1)
            /\ scan.requests[1] = NoKey
            /\ \A r \in 2 .. Len(scan.requests) :
                  scan.requests[r] = LastEvaluatedKey(scan.table, r - 1)
            /\ \A r \in 1 .. Len(scan.requests) - 1 :
                  LastEvaluatedKey(scan.table, r) # NoKey)
    /\ [](pc = "scan_complete" =>
            /\ scan.yielded = ItemsUpTo(scan.table, Len(scan.table))
            /\ LastEvaluatedKey(scan.table, Len(scan.requests)) = NoKey)
    /\ <>(pc = "scan_complete")

\* A scan of three pages, the second one empty, that yielded the items of
\* the first and the third page and ended.
C25_Witness ==
    /\ pc = "scan_complete"
    /\ Len(scan.table) = 3
    /\ scan.table[2] = 0
    /\ scan.requests = <<0, 1, 2>>
    /\ scan.yielded = <<<<1, 1>>, <<1, 2>>, <<3, 1>>>>

(***************************************************************************)
(* C26: after a completed bulk run the sink holds one report document per  *)
(* distinct command and one per distinct (command, app_package) pair: no   *)
(* two keys share a document, and the summary's                            *)
(* individual_command_files_generated and command_package_files_generated  *)
(* are the numbers of documents written.                                   *)
(***************************************************************************)
C26_OneDocumentPerKey ==
    pc = "done" =>
       /\ \A name \in DOMAIN reports.files.individual :
             Cardinality(reports.files.individual[name]) = 1
       /\ \A name \in DOMAIN reports.files.command_package :
             Cardinality(reports.files.command_package[name]) = 1
       /\ Cardinality(DOMAIN reports.files.individual)
             = Cardinality(DOMAIN command_stats)
       /\ Cardinality(DOMAIN reports.files.command_package)
             = Cardinality(DOMAIN command_package_stats)
       /\ reports.summary.individual_command_files_generated
             = Cardinality(DOMAIN reports.files.individual)
       /\ reports.summary.command_package_files_generated
             = Cardinality(DOMAIN reports.files.command_package)

(***************************************************************************)
(* command_stats: the analysis of one (command, app_package).  The         *)
(* records of the table that carry the command and the package are read    *)
(* by scan_command_steps_with_pagination and analysed by                   *)
(* analyze_command_statistics; the bulk run reads the same records into    *)
(* its (command, app_package) bucket.  scan holds the records as the       *)
(* table stores them (items) and as the command scanner yields them        *)
(* (yielded); reports holds the report of the analysis.                    *)
(***************************************************************************)
\* The n-th record of the table: step_id is its key.
CommandItem(n, kind) ==
    LET item == BulkItem("Tap Submit", "com.shop", kind)
    IN  [attr \in DOMAIN item \cup {"step_id"} |->
            IF attr = "step_id" THEN AttrS(ToString(n)) ELSE item[attr]]

\* convert_dynamodb_item_to_dict: {'S': s} becomes the str s and {'N': n}
\* the number n; a value that is not a dict is kept as it is.
convert_dynamodb_item_to_dict(item) ==
    LET PyValue(value) ==
            CASE value.t = "S" -> [t |-> "str", v |-> value.v]
              [] value.t = "N" -> [t |-> "num", v |-> value.v]
              [] OTHER -> value
    IN  [attr \in DOMAIN item |-> PyValue(item[attr])]

\* StepInfo: step_dict.get('step_id', '') and
\* step_dict.get('cache_read_status').
create_step_info_from_dict(step_dict) ==
    [step_id |-> IF step_dict.step_id.t = "str" THEN step_dict.step_id.v ELSE "",
     cache_read_status |->
        IF step_dict.cache_read_status.t = "num"
        THEN [none |-> FALSE, n |-> NumberOf(step_dict.cache_read_status.v)]
        ELSE [none |-> TRUE, n |-> 0]]

\* A step is a hit when step_info.cache_read_status == 1 and a miss
\* otherwise.
separate_hits_and_misses(step_infos) ==
    LET IsHitStep(step_info) ==
            ~step_info.cache_read_status.none /\ step_info.cache_read_status.n = 1
        IsMissStep(step_info) == ~IsHitStep(step_info)
    IN  [hit_steps |-> SelectSeq(step_infos, IsHitStep),
         miss_steps |-> SelectSeq(step_infos, IsMissStep)]

\* analyze_cache_misses.  dynamodb_by_step_id is
\* {get_nested_value(step, 'step_id', 'S'): step for step in steps}: the
\* last step under each key, the key being None when step['step_id'] is
\* not a dict with an 'S' entry.  A miss whose step_id is not a key of the
\* mapping is skipped; a reason that is not a key of the breakdown is
\* counted as unclassified (add_step_to_breakdown_category); an exception
\* of analyze_cache_miss_reason leaves the function (there is no try
\* around the call).
analyze_cache_misses(miss_steps, original_dynamodb_steps) ==
    LET steps == original_dynamodb_steps
        key(i) == get_nested_value(steps[i], "step_id", "S", PyNone)
        last(k) == CHOOSE i \in 1..Len(steps) :
                      /\ key(i) = k
                      /\ \A j \in 1..Len(steps) : key(j) = k => j <= i
        dynamodb_by_step_id ==
            [k \in {key(i) : i \in 1..Len(steps)} |-> steps[last(k)]]
        Found(step_info) == step_info.step_id \in DOMAIN dynamodb_by_step_id
        found == SelectSeq(miss_steps, Found)
        reasons == [i \in 1..Len(found) |->
                       analyze_cache_miss_reason(
                           dynamodb_by_step_id[found[i].step_id])]
        category(i) ==
            IF reasons[i] \in Categories THEN reasons[i] ELSE UNCLASSIFIED
    IN  [raised |-> \E i \in 1..Len(found) : reasons[i] = Raise,
         count |-> Len(miss_steps),
         breakdown |->
            [c \in Categories |->
                Cardinality({i \in 1..Len(found) : category(i) = c})]]

create_empty_report ==
    [total_step_runs |-> 0,
     cache_hit |-> [count |-> 0],
     cache_miss |-> [count |-> 0, breakdown |-> [c \in Categories |-> 0]]]

\* analyze_command_statistics: [raised, report], the report being the one
\* build_command_stats_report makes of len(step_infos), the hit count and
\* the miss statistics.
analyze_command_statistics(steps) ==
    LET step_infos ==
            [i \in 1..Len(steps) |->
                create_step_info_from_dict(convert_dynamodb_item_to_dict(steps[i]))]
        separated == separate_hits_and_misses(step_infos)
        miss_stats == analyze_cache_misses(separated.miss_steps, steps)
    IN  IF steps = <<>> THEN [raised |-> FALSE, report |-> create_empty_report]
        ELSE IF miss_stats.raised
        THEN [raised |-> TRUE, report |-> create_empty_report]
        ELSE [raised |-> FALSE,
              report |->
                 [total_step_runs |-> Len(step_infos),
                  cache_hit |-> [count |-> Len(separated.hit_steps)],
                  cache_miss |-> [count |-> miss_stats.count,
                                  breakdown |-> miss_stats.breakdown]]]

InitCommand ==
    /\ step = NoItem
    /\ checks = NoChecks
    /\ miss_reason = NotRun
    /\ categories = NoCategories
    /\ InitAggregator
    /\ run_args = NoArgs
    /\ reports = [built |-> FALSE, steps |-> "none", report |-> create_empty_report]
    /\ scan = [items |-> <<>>, yielded |-> <<>>]
    /\ pc = "command_scanning"

\* The command scanner yields the next matching record, converted; the
\* bulk run counts the same record in its (command, app_package) bucket.
ScanCommandStep(kind) ==
    LET item == CommandItem(total_steps_processed + 1, kind)
    IN  /\ pc = "command_scanning"
        /\ total_steps_processed < MaxRecords
        /\ step' = item
        /\ total_steps_processed' = total_steps_processed + 1
        /\ scan' = [items |-> Append(scan.items, item),
                    yielded |-> Append(scan.yielded,
                                       convert_dynamodb_item_to_dict(item))]
        /\ command_package_stats' =
              update_command_package_stats(command_package_stats, item)
        /\ UNCHANGED <<checks, miss_reason, categories, command_stats, pc,
                       run_args, reports>>

\* analyze_command_statistics on the steps the scanner yielded, as cli.py
\* calls it (the run ends before the analysis when there are none), or on
\* the records in DynamoDB format, the format its docstring asks for: the
\* analysis ends with a report or with an exception.
Analyze(origin) ==
    LET result == analyze_command_statistics(scan[origin])
    IN  /\ pc = "command_scanning"
        /\ origin = "yielded" => scan.yielded # <<>>
        /\ pc' = IF result.raised THEN "raised_by_analysis" ELSE "analyzed"
        /\ reports' = [built |-> ~result.raised, steps |-> origin,
                       report |-> result.report]
        /\ UNCHANGED <<step, checks, miss_reason, categories, command_stats,
                       command_package_stats, total_steps_processed,
                       run_args, scan>>

NextCommand ==
    \/ \E kind \in Kinds : ScanCommandStep(kind)
    \/ \E origin \in {"yielded", "items"} : Analyze(origin)

SpecCommand == InitCommand /\ [][NextCommand]_vars

\* The two sums validate_report_data compares.
ReportIsConsistent(report) ==
    /\ report.cache_hit.count + report.cache_miss.count = report.total_step_runs
    /\ SumOfValues(report.cache_miss.breakdown) = report.cache_miss.count

(***************************************************************************)
(* C21: every report analyze_command_statistics builds from the items      *)
(* yielded by scan_command_steps_with_pagination is consistent: the hit    *)
(* count and the miss count add up to total_step_runs, and the counts of   *)
(* the twelve breakdown categories add up to the miss count.               *)
(***************************************************************************)
C21_ScannedReportIsConsistent ==
    (reports.built /\ reports.steps = "yielded") =>
        ReportIsConsistent(reports.report)

\* The counters of the bulk bucket of the analysed pair, zero when no
\* record created it.
AnalyzedBucket ==
    LET key == <<"Tap Submit", "com.shop">>
    IN  IF key \in DOMAIN command_package_stats
        THEN [count |-> command_package_stats[key].count,
              cache_hits |-> command_package_stats[key].cache_hits,
              cache_misses |-> command_package_stats[key].cache_misses,
              cache_miss_breakdown |-> command_package_stats[key].cache_miss_breakdown]
        ELSE [count |-> 0, cache_hits |-> 0, cache_misses |-> 0,
              cache_miss_breakdown |-> _init_breakdown_stats]

(***************************************************************************)
(* C30: for any finite set of records of one command and app_package, the  *)
(* analysis of the records by analyze_command_statistics ends with a       *)
(* report that agrees with the bulk (command, app_package) bucket on the   *)
(* total count, the hit count, the miss count and the count of every       *)
(* breakdown category.                                                     *)
(***************************************************************************)
C30_ReportAgreesWithBulkBucket ==
    (pc \in {"analyzed", "raised_by_analysis"} /\ reports.steps = "items") =>
        /\ reports.built
        /\ reports.report.total_step_runs = AnalyzedBucket.count
        /\ reports.report.cache_hit.count = AnalyzedBucket.cache_hits
        /\ reports.report.cache_miss.count = AnalyzedBucket.cache_misses
        /\ \A c \in Categories :
              reports.report.cache_miss.breakdown[c]
                  = AnalyzedBucket.cache_miss_breakdown[c]

=============================================================================
